---- MODULE Spec2Model ----
(***************************************************************************)
(* Model of odemis/driver/semcomedi.py (class SEMComedi): the calibration  *)
(* store, the converter cache, and the read (get_data) and write           *)
(* (write_data) streaming paths.  The comedi device is the environment:    *)
(* every comedi_* call whose return code the driver tests is answered      *)
(* nondeterministically.                                                   *)
(***************************************************************************)
EXTENDS Integers, Sequences, FiniteSets, TLC

VARIABLES
    hw,                 \* the DAQ board behind self._device (static description)
    session,            \* life cycle of the SEMComedi object
    device,             \* self._device: the comedi handle
    calibration,        \* self._calibration
    convert_to_phys,    \* self._convert_to_phys
    convert_from_phys,  \* self._convert_from_phys
    busy,               \* subdevices holding a submitted, not yet cancelled command
    init_log,           \* what _init_calibration did during construction
    call,               \* frame of the call in progress / of the last call
    pre,                \* session state when the call in `call` started
    nresolved,          \* number of resolutions made by _to_phys / _from_phys per key
    teardown,           \* terminate: number of calls, comedi calls they made
    stage,              \* the CombinedStage adapter and its child actuator
    view                \* the MicroscopeView and the threads calling it

vars == <<hw, session, device, calibration, convert_to_phys, convert_from_phys, busy,
          init_log, call, pre, nresolved, teardown, stage, view>>

----------------------------------------------------------------------------
(* Bounds of the model *)

NChannels == 2      \* channels 0 .. NChannels-1 of each subdevice are used
MaxScans == 2       \* largest number of scans asked of get_data / write_data
MaxData == 4095     \* comedi_get_maxdata of the board (12 bit converter)
MaxTerminate == 3   \* largest number of terminate calls on a session
MaxShape == 3       \* largest X / Y resolution given to _generate_scan_array

----------------------------------------------------------------------------
(* comedi constants and the board *)

AI == 0             \* index returned by comedi_find_subdevice_by_type(COMEDI_SUBD_AI)
AO == 1             \* index returned by comedi_find_subdevice_by_type(COMEDI_SUBD_AO)
Subdevices == {AI, AO}
Channels == 0 .. (NChannels - 1)

COMEDI_TO_PHYSICAL == "to_physical"
COMEDI_FROM_PHYSICAL == "from_physical"
Directions == {COMEDI_TO_PHYSICAL, COMEDI_FROM_PHYSICAL}

SDF_SOFT_CALIBRATED == "SDF_SOFT_CALIBRATED"
SDF_LSAMPL == "SDF_LSAMPL"

None == "None"

\* A physical value: the exact number num / MaxData volt, or not-a-number.
Phys(num) == [nan |-> FALSE, num |-> num]
NaN == [nan |-> TRUE, num |-> 0]
Volt(v) == Phys(v * MaxData)

\* Range tables (volts) a board can have on a subdevice.
WideRanges == << [min |-> -10, max |-> 10], [min |-> 0, max |-> 10] >>
NarrowRanges == << [min |-> -5, max |-> 5], [min |-> 0, max |-> 1] >>
RangeIndices == 0 .. (Len(WideRanges) - 1)

\* The boards: per subdevice the calibration flag; a 16 bit board with the
\* wide ranges or a 32 bit board with the narrow ranges.
BoardFlags(soft, lsampl) ==
    [s \in Subdevices |->
        (IF s \in soft THEN {SDF_SOFT_CALIBRATED} ELSE {}) \cup
        (IF lsampl THEN {SDF_LSAMPL} ELSE {})]

Boards ==
    {[flags |-> BoardFlags(soft, lsampl),
      ranges |-> IF lsampl THEN NarrowRanges ELSE WideRanges] :
        soft \in {{}, Subdevices}, lsampl \in BOOLEAN}

\* boards used to exercise the converter cache alone
CacheBoards ==
    {[flags |-> BoardFlags(soft, FALSE), ranges |-> WideRanges] :
        soft \in SUBSET Subdevices}

comedi_get_subdevice_flags(subdevice) == hw.flags[subdevice]

comedi_get_range(subdevice, channel, range) == hw.ranges[range + 1]

\* comedilib: index of the narrowest range covering [min, max], -1 if none.
Covering(min, max) ==
    {i \in RangeIndices : hw.ranges[i + 1].min <= min /\ hw.ranges[i + 1].max >= max}

Width(i) == hw.ranges[i + 1].max - hw.ranges[i + 1].min

comedi_find_range(subdevice, channel, min, max) ==
    IF Covering(min, max) = {} THEN -1
    ELSE CHOOSE i \in Covering(min, max) :
            \A j \in Covering(min, max) :
                Width(i) < Width(j) \/ (Width(i) = Width(j) /\ i <= j)

----------------------------------------------------------------------------
(* Converters.  A converter is the closure returned by _get_converter: its *)
(* tier and the (subdevice, channel, range, direction) it was built for.   *)
(* Physical values are exact: a value v stands for v / MaxData volt.       *)

Keys == Subdevices \X Channels \X RangeIndices

Converter(tier, subdevice, channel, range, direction) ==
    [tier |-> tier, subdevice |-> subdevice, channel |-> channel,
     range |-> range, direction |-> direction]

Tiers == {"linear", "hardcal", "softcal"}

\* no converter: a missing cache entry (KeyError)
NoConverter == Converter(None, 0, 0, 0, None)

\* _get_converter without "poly = None" after a failed lookup: the polynomial
\* of the failed lookup is used
_get_converter_no_fallback(subdevice, channel, range, direction, lookup_ok) ==
    LET flags == comedi_get_subdevice_flags(subdevice)
        tried == IF SDF_SOFT_CALIBRATED \notin flags THEN "hardcal"
                 ELSE IF calibration # None THEN "softcal"
                 ELSE None
    IN  [flags |-> flags, calibration |-> calibration, tried |-> tried,
         lookup_ok |-> lookup_ok,
         converter |-> IF tried = None
                       THEN Converter("linear", subdevice, channel, range, direction)
                       ELSE Converter(tried, subdevice, channel, range, direction)]

\* _get_converter with the calibration flag read the wrong way round
_get_converter_flag_inverted(subdevice, channel, range, direction, lookup_ok) ==
    LET flags == comedi_get_subdevice_flags(subdevice)
        tried == IF SDF_SOFT_CALIBRATED \in flags THEN "hardcal"
                 ELSE IF calibration # None THEN "softcal"
                 ELSE None
        poly == IF tried # None /\ lookup_ok THEN tried ELSE None
    IN  [flags |-> flags, calibration |-> calibration, tried |-> tried,
         lookup_ok |-> lookup_ok,
         converter |-> IF poly = None
                       THEN Converter("linear", subdevice, channel, range, direction)
                       ELSE Converter(poly, subdevice, channel, range, direction)]

\* resolution performed by _get_converter; lookup_ok is the answer of
\* comedi_get_hardcal_converter / comedi_get_softcal_converter (result >= 0)
_get_converter(subdevice, channel, range, direction, lookup_ok) ==
    LET flags == comedi_get_subdevice_flags(subdevice)
        tried == IF SDF_SOFT_CALIBRATED \notin flags THEN "hardcal"
                 ELSE IF calibration # None THEN "softcal"
                 ELSE None
        poly == IF tried # None /\ lookup_ok THEN tried ELSE None
    IN  [flags |-> flags, calibration |-> calibration, tried |-> tried,
         lookup_ok |-> lookup_ok,
         converter |-> IF poly = None
                       THEN Converter("linear", subdevice, channel, range, direction)
                       ELSE Converter(poly, subdevice, channel, range, direction)]

\* the answers the calibrated lookup can give (none when no lookup is made)
LookupAnswers(subdevice) ==
    IF SDF_SOFT_CALIBRATED \in comedi_get_subdevice_flags(subdevice)
       /\ calibration = None
    THEN {FALSE} ELSE BOOLEAN

NoResolution ==
    [flags |-> {}, calibration |-> None, tried |-> None, lookup_ok |-> FALSE,
     converter |-> NoConverter]

\* comedi_to_phys(d, range_info, maxdata), with COMEDI_OOR_NAN set in __init__
comedi_to_phys(d, rng) ==
    IF d = 0 \/ d = MaxData THEN NaN
    ELSE Phys(rng.min * MaxData + d * (rng.max - rng.min))

\* floor(s + 0.5) for s = num / den, den > 0
RoundHalfUp(num, den) == (2 * num + den) \div (2 * den)

\* comedi_from_phys(v, range_info, maxdata); a NaN input has no defined code
\* (0 here; a caller that can pass NaN draws the code from NaNCodes)
comedi_from_phys(v, rng) ==
    IF v.nan THEN 0
    ELSE LET num == v.num - rng.min * MaxData
             den == rng.max - rng.min
         IN  IF num < 0 THEN 0
             ELSE IF num > MaxData * den THEN MaxData
             ELSE RoundHalfUp(num, den)

\* comedi_to_physical(d, poly): first order polynomial of the range
comedi_to_physical(d, rng) == Phys(rng.min * MaxData + d * (rng.max - rng.min))

\* nearbyint(s) for s = num / den, den > 0, in the default rounding mode:
\* the nearest whole number, a tie going to the even one
nearbyint(num, den) ==
    LET q == num \div den
        r == num - q * den
    IN  IF 2 * r < den THEN q
        ELSE IF 2 * r > den THEN q + 1
        ELSE IF q % 2 = 0 THEN q ELSE q + 1

\* the conversion of a NaN or of a negative double to lsampl_t (32 bits,
\* unsigned) is undefined in C: it gives 0 or a code far above maxdata
\* (2^31 for NaN, 2^32 + x for a negative x). Such a code is above the
\* largest integer that can be written here: LSamplHigh stands for it.
LSamplHigh == 2147483647
NaNCodes == {0, LSamplHigh}

\* comedi_from_physical(v, poly): (lsampl_t) nearbyint(poly(v)), not clipped.
\* A NaN and a value whose code would be negative have no defined code (0
\* and LSamplHigh here; a caller that can pass them draws the code from
\* Results)
comedi_from_physical(v, rng) ==
    IF v.nan THEN 0
    ELSE LET x == nearbyint(v.num - rng.min * MaxData, rng.max - rng.min)
         IN  IF x < 0 THEN LSamplHigh ELSE x

\* converter(value)
Apply(converter, value) ==
    LET rng == comedi_get_range(converter.subdevice, converter.channel,
                                converter.range)
    IN  IF converter.tier = "linear"
        THEN IF converter.direction = COMEDI_TO_PHYSICAL
             THEN comedi_to_phys(value, rng)
             ELSE comedi_from_phys(value, rng)
        ELSE IF converter.direction = COMEDI_TO_PHYSICAL
             THEN comedi_to_physical(value, rng)
             ELSE comedi_from_physical(value, rng)

\* the codes converter(value) can give: the one of Apply, or any of NaNCodes
\* where the conversion to lsampl_t is undefined
Results(converter, value) ==
    LET rng == comedi_get_range(converter.subdevice, converter.channel,
                                converter.range)
        undefined ==
            /\ converter.direction = COMEDI_FROM_PHYSICAL
            /\ \/ value.nan
               \/ /\ converter.tier # "linear"
                  /\ nearbyint(value.num - rng.min * MaxData, rng.max - rng.min) < 0
    IN  IF undefined THEN NaNCodes ELSE {Apply(converter, value)}

EmptyCache == [k \in Keys |-> NoConverter]

----------------------------------------------------------------------------
(* Call frames *)

NoCall ==
    [op |-> "none", pc |-> "done", result |-> "none",
     chans |-> << >>, ranges |-> << >>, nscans |-> 0, stop_arg |-> 0,
     ntests |-> 0, rc |-> 0, negative |-> FALSE, submitted |-> FALSE, cancels |-> 0, io |-> 0,
     itemsize |-> 0, buf |-> << >>, ret |-> << >>, nresolutions |-> 0,
     log |-> << >>, resolution |-> NoResolution,
     data |-> << >>, converters |-> << >>, preload |-> 0, now |-> 0,
     had_timeout |-> FALSE, start_src |-> "none",
     sdf_running |-> "unknown",
     shape |-> << >>, limits |-> << >>, dtype |-> "none",
     transfers |-> << >>, names |-> << >>,
     dev_buf_size |-> 0, written |-> << >>, raises |-> 0]

NewCall(op) == [NoCall EXCEPT !.op = op, !.pc = "start"]

Raise(frame, error) == [frame EXCEPT !.pc = "done", !.result = error]

Return(frame) == [frame EXCEPT !.pc = "done", !.result = "return"]

Snapshot ==
    [session |-> session, device |-> device, calibration |-> calibration,
     convert_to_phys |-> convert_to_phys,
     convert_from_phys |-> convert_from_phys, busy |-> busy]

NoInitLog ==
    [soft |-> FALSE, path_lookup |-> FALSE, path_ok |-> FALSE,
     parse |-> FALSE, parse_ok |-> FALSE, error |-> None,
     opened |-> FALSE, ai_found |-> FALSE, ao_found |-> FALSE]

SessionVars == <<session, device, calibration, init_log, teardown>>
CacheVars == <<convert_to_phys, convert_from_phys, nresolved>>

\* no CombinedStage constructed yet; the child actuator rests at the origin
NoStage ==
    [state |-> "new", scale |-> <<1, 1>>, rotation |-> 0, offset |-> <<0, 0>>,
     position |-> <<0, 0>>, subscribed |-> FALSE, child_position |-> <<0, 0>>,
     op |-> "none", arg |-> << >>, forwarded |-> << >>, result |-> "none",
     ret |-> None, listener |-> "none"]

\* threads calling the MicroscopeView
Threads == {1, 2}

\* stream.image.value of a stream that has not produced an image yet
NoImage == [pixels |-> FALSE, mpp |-> None]

\* no MicroscopeView constructed yet.  streams is stream_tree.streams,
\* subscribed the streams whose image has _onNewImage as listener, image the
\* value of stream.image of the streams that have one ("sem" starts with an
\* image, "optical" without), merge is stream_tree.kwargs["merge"], clock
\* the time: it advances by one at every call of addStream / removeStream,
\* at every image published and at every change of merge_ratio.
\* stage_pos is the value of stage.position (the stage exists before the
\* view), view_pos the centre of the view, both in millimetres; last is the
\* last call of moveStageToView: what it forwarded and returned.
NoView ==
    [state |-> "new", streams |-> << >>, subscribed |-> {}, lastUpdate |-> 0,
     clock |-> 0, has_received_image |-> FALSE, mpp |-> "10e-6",
     image |-> [sem |-> [pixels |-> TRUE, mpp |-> "2e-6"], optical |-> NoImage],
     merge |-> "0.3",
     threads |-> [t \in Threads |-> [op |-> "none", pc |-> "idle",
                                      stream |-> None, result |-> "none"]],
     has_stage |-> FALSE, stage_pos |-> <<0, 0>>, view_pos |-> <<0, 0>>,
     last |-> [op |-> "none", forwarded |-> << >>, ret |-> None,
               from |-> <<0, 0>>, to |-> <<0, 0>>]]

----------------------------------------------------------------------------
Init ==
    /\ hw \in Boards
    /\ session = "new"
    /\ device = None
    /\ calibration = None
    /\ convert_to_phys = EmptyCache
    /\ convert_from_phys = EmptyCache
    /\ busy = {}
    /\ init_log = NoInitLog
    /\ call = NoCall
    /\ pre = Snapshot
    /\ nresolved = [d \in Directions |-> [k \in Keys |-> 0]]
    /\ teardown = [calls |-> 0, log |-> << >>]
    /\ stage = NoStage
    /\ view = NoView

----------------------------------------------------------------------------
(* Construction *)

\* _init_calibration keeping the result of a failed parse
_init_calibration_unchecked_parse(path_ok, parse_ok) ==
    LET is_soft_calibrated ==
            \E i \in Subdevices :
                SDF_SOFT_CALIBRATED \in comedi_get_subdevice_flags(i)
    IN  IF ~is_soft_calibrated
        THEN [calibration |-> None, log |-> NoInitLog]
        ELSE [calibration |-> "blob",
              log |-> [NoInitLog EXCEPT !.soft = TRUE, !.path_lookup = TRUE,
                                        !.path_ok = path_ok, !.parse = TRUE,
                                        !.parse_ok = parse_ok]]

\* _init_calibration: path_ok, parse_ok are the answers of
\* comedi_get_default_calibration_path and comedi_parse_calibration_file
\* (not None); the result is self._calibration and what was done
_init_calibration(path_ok, parse_ok) ==
    LET is_soft_calibrated ==
            \E i \in Subdevices :
                SDF_SOFT_CALIBRATED \in comedi_get_subdevice_flags(i)
    IN  IF ~is_soft_calibrated
        THEN [calibration |-> None, log |-> NoInitLog]
        ELSE IF ~path_ok
        THEN [calibration |-> None,
              log |-> [NoInitLog EXCEPT !.soft = TRUE, !.path_lookup = TRUE]]
        ELSE [calibration |-> IF parse_ok THEN "blob" ELSE None,
              log |-> [NoInitLog EXCEPT !.soft = TRUE, !.path_lookup = TRUE,
                                        !.path_ok = TRUE, !.parse = TRUE,
                                        !.parse_ok = parse_ok]]

\* the checks of __init__ without the one of the AO subdevice
InitError_ao_optional(open_ok, fileno_ok, ai_found, ao_found) ==
    IF ~open_ok THEN "ValueError: Failed to open DAQ device"
    ELSE IF ~fileno_ok
    THEN "IOError: Error obtaining Comedi device file descriptor"
    ELSE IF ~ai_found THEN "ValueError: Failed to open AI subdevice"
    ELSE None

\* the checks of __init__, in the order of the code: the error raised, if any
InitError(open_ok, fileno_ok, ai_found, ao_found) ==
    IF ~open_ok THEN "ValueError: Failed to open DAQ device"
    ELSE IF ~fileno_ok
    THEN "IOError: Error obtaining Comedi device file descriptor"
    ELSE IF ~ai_found THEN "ValueError: Failed to open AI subdevice"
    ELSE IF ~ao_found THEN "ValueError: Failed to open AO subdevice"
    ELSE None

\* SEMComedi.__init__; the booleans are the answers of comedi_open,
\* comedi_fileno, comedi_find_subdevice_by_type (AI, AO).  init_log keeps
\* the answers of the calls that were made.
__init__ ==
    /\ session = "new"
    /\ \E open_ok, fileno_ok, ai_found, ao_found, path_ok, parse_ok \in BOOLEAN :
        LET cal == _init_calibration(path_ok, parse_ok)
            error == InitError(open_ok, fileno_ok, ai_found, ao_found)
            asked_ai == open_ok /\ fileno_ok
            asked_ao == asked_ai /\ ai_found
            answers == [opened |-> open_ok, ai_found |-> asked_ai /\ ai_found,
                        ao_found |-> asked_ao /\ ao_found]
            log == IF error = None THEN cal.log
                   ELSE [NoInitLog EXCEPT !.error = error]
        IN  /\ device' = IF open_ok THEN "open" ELSE None
            /\ session' = IF error = None THEN "ready" ELSE "failed"
            /\ init_log' = [log EXCEPT !.opened = answers.opened,
                                       !.ai_found = answers.ai_found,
                                       !.ao_found = answers.ao_found]
            /\ calibration' = IF error = None THEN cal.calibration ELSE None
    /\ convert_to_phys' = EmptyCache
    /\ convert_from_phys' = EmptyCache
    /\ UNCHANGED <<hw, stage, view, busy, call, pre, nresolved, teardown>>

----------------------------------------------------------------------------
(* Converter cache *)

\* _to_phys / _from_phys resolving on every call
CachedConvert_always_resolves(cache, subdevice, channel, range, direction, value, lookup_ok) ==
    LET key == <<subdevice, channel, range>>
        res == _get_converter(subdevice, channel, range, direction, lookup_ok)
    IN  [hit |-> FALSE,
         cache |-> [cache EXCEPT ![key] = res.converter],
         resolution |-> res,
         value |-> Apply(res.converter, value)]

\* body of _to_phys / _from_phys: look the key up, resolve and store on KeyError
CachedConvert(cache, subdevice, channel, range, direction, value, lookup_ok) ==
    LET key == <<subdevice, channel, range>>
        hit == cache[key].tier # None
        res == _get_converter(subdevice, channel, range, direction, lookup_ok)
        converter == IF hit THEN cache[key] ELSE res.converter
    IN  [hit |-> hit,
         cache |-> IF hit THEN cache ELSE [cache EXCEPT ![key] = converter],
         resolution |-> IF hit THEN NoResolution ELSE res,
         value |-> Apply(converter, value)]

Count(direction, subdevice, channel, range, hit) ==
    IF hit THEN nresolved
    ELSE [nresolved EXCEPT ![direction][<<subdevice, channel, range>>] = @ + 1]

RawCodes == {0, 1, MaxData}         \* raw codes given to _to_phys
SampleCodes == {0, 1}               \* raw samples delivered by the device
\* physical values used as inputs: -4 V is a tie between two codes on
\* [-10, 10] V and is below [0, 10] V
PhysValues == {Volt(0), Volt(5), Volt(-4)}

_to_phys(subdevice, channel, range, value) ==
    /\ session = "ready" /\ call.pc = "done"
    /\ \E lookup_ok \in LookupAnswers(subdevice) :
        LET c == CachedConvert(convert_to_phys, subdevice, channel, range,
                               COMEDI_TO_PHYSICAL, value, lookup_ok)
        IN  /\ convert_to_phys' = c.cache
            /\ nresolved' = Count(COMEDI_TO_PHYSICAL, subdevice, channel, range, c.hit)
            /\ call' = Return([NewCall("_to_phys") EXCEPT
                                !.resolution = c.resolution,
                                !.chans = <<channel>>, !.ranges = <<range>>,
                                !.buf = <<value>>, !.ret = <<c.value>>,
                                !.nresolutions = IF c.hit THEN 0 ELSE 1])
    /\ pre' = Snapshot
    /\ UNCHANGED <<hw, stage, view, SessionVars, convert_from_phys, busy>>

_from_phys(subdevice, channel, range, value) ==
    /\ session = "ready" /\ call.pc = "done"
    /\ \E lookup_ok \in LookupAnswers(subdevice) :
        LET c == CachedConvert(convert_from_phys, subdevice, channel, range,
                               COMEDI_FROM_PHYSICAL, value, lookup_ok)
        IN  \E code \in Results(c.cache[<<subdevice, channel, range>>], value) :
            /\ convert_from_phys' = c.cache
            /\ nresolved' = Count(COMEDI_FROM_PHYSICAL, subdevice, channel, range, c.hit)
            /\ call' = Return([NewCall("_from_phys") EXCEPT
                                !.resolution = c.resolution,
                                !.chans = <<channel>>, !.ranges = <<range>>,
                                !.ret = <<value>>, !.buf = <<code>>,
                                !.nresolutions = IF c.hit THEN 0 ELSE 1])
    /\ pre' = Snapshot
    /\ UNCHANGED <<hw, stage, view, SessionVars, convert_to_phys, busy>>

\* getTemperatureSCB: one raw read of AI0, converted through _to_phys
getTemperatureSCB ==
    /\ session = "ready" /\ call.pc = "done"
    /\ \E rc \in {-1, 1} :
        \E data \in IF rc < 0 THEN {0} ELSE SampleCodes :
        \E lookup_ok \in IF rc < 0 THEN {FALSE} ELSE LookupAnswers(AI) :
        LET channel == 0
            found == comedi_find_range(AI, channel, 0, 1)
            range == IF found < 0 THEN 0 ELSE found
            c == CachedConvert(convert_to_phys, AI, channel, range,
                               COMEDI_TO_PHYSICAL, data, lookup_ok)
            frame == [NewCall("getTemperatureSCB") EXCEPT
                        !.chans = <<channel>>, !.ranges = <<range>>]
        IN  IF rc < 0
            THEN /\ call' = Raise(frame, "IOError: Failed to read data")
                 /\ UNCHANGED <<convert_to_phys, nresolved>>
            ELSE /\ convert_to_phys' = c.cache
                 /\ nresolved' = Count(COMEDI_TO_PHYSICAL, AI, channel, range, c.hit)
                 /\ call' = Return([frame EXCEPT
                                !.resolution = c.resolution,
                                !.buf = <<data>>,
                                !.ret = << [c.value EXCEPT !.num = @ * 100] >>,
                                !.nresolutions = IF c.hit THEN 0 ELSE 1])
    /\ pre' = Snapshot
    /\ UNCHANGED <<hw, stage, view, SessionVars, convert_from_phys, busy>>

----------------------------------------------------------------------------
(* Steps shared by the read path and the write path *)

\* cmd.start_src: TRIG_NOW is what comedi_get_cmd_generic_timed prepares,
\* TRIG_INT waits for comedi_internal_trigger
TRIG_NOW == "TRIG_NOW"
TRIG_INT == "TRIG_INT"

\* answers of comedi_command_test: -1 error, 0 valid, 1..5 the failing stage
\* (3: an argument was out of range and has been adjusted)
TestCodes == {-1, 0, 3}

\* the test rewrites the command in place when it reports an argument out
\* of range (3): a stop count of 0 may come back as 1
Adjusted(stop_arg, rc) ==
    IF rc = 3 /\ stop_arg < 1 THEN {stop_arg, 1} ELSE {stop_arg}

\* first comedi_command_test
command_test_first(frame, rc, stop_arg) ==
    LET f == [frame EXCEPT !.ntests = @ + 1, !.rc = rc,
                           !.negative = @ \/ rc < 0,
                           !.log = Append(@, "test"), !.stop_arg = stop_arg]
    IN  IF rc < 0 THEN Raise(f, "IOError: comedi_command_test failed")
        ELSE [f EXCEPT !.pc = "test2"]

\* second test accepting any non-negative code
command_test_second_lenient(frame, rc, stop_arg) ==
    LET f == [frame EXCEPT !.ntests = @ + 1, !.rc = rc,
                           !.negative = @ \/ rc < 0,
                           !.log = Append(@, "test"), !.stop_arg = stop_arg]
    IN  IF rc < 0 THEN Raise(f, "IOError: comedi_command_test failed")
        ELSE [f EXCEPT !.pc = "command"]

\* second test whose result is examined only after the command was submitted
command_test_second_late(frame, rc, stop_arg) ==
    LET f == [frame EXCEPT !.ntests = @ + 1, !.rc = rc,
                           !.negative = @ \/ rc < 0,
                           !.log = Append(@, "test"), !.stop_arg = stop_arg]
        g == [f EXCEPT !.submitted = TRUE, !.log = Append(@, "command")]
    IN  IF rc < 0 THEN Raise(g, "IOError: comedi_command_test failed")
        ELSE IF rc # 0 THEN Raise(g, "IOError: failed to prepare command")
        ELSE [f EXCEPT !.pc = "command"]

\* second comedi_command_test: must report 0
command_test_second(frame, rc, stop_arg) ==
    LET f == [frame EXCEPT !.ntests = @ + 1, !.rc = rc,
                           !.negative = @ \/ rc < 0,
                           !.log = Append(@, "test"), !.stop_arg = stop_arg]
    IN  IF rc < 0 THEN Raise(f, "IOError: comedi_command_test failed")
        ELSE IF rc # 0 THEN Raise(f, "IOError: failed to prepare command")
        ELSE [f EXCEPT !.pc = "command"]

\* comedi_command: refused on a subdevice that is still busy
CommandAnswers(subdevice) == IF subdevice \in busy THEN {-1} ELSE {-1, 0}

comedi_command(frame, ret, next) ==
    IF ret < 0 THEN Raise(frame, "IOError: comedi_command failed")
    ELSE [frame EXCEPT !.submitted = TRUE, !.log = Append(@, "command"),
                       !.pc = next]

\* _get_dtype: item size in bytes; flags_ok = FALSE when the flags query gives -1
_get_dtype(subdevice, flags_ok) ==
    IF ~flags_ok THEN -1
    ELSE IF SDF_LSAMPL \in comedi_get_subdevice_flags(subdevice) THEN 4
    ELSE 2

\* the sequences of at most n items of S
SeqUpTo(S, n) == UNION {[1 .. m -> S] : m \in 0 .. n}

----------------------------------------------------------------------------
(* Read path: get_data(channel, period, size) *)

\* range search, channel list, comedi_get_cmd_generic_timed.  The range found
\* is used as it is: with -1 (no range covers 0..10 V) cr_pack either refuses
\* the negative value (packed = FALSE) or packs it.
get_data(channel, size) ==
    /\ session = "ready" /\ call.pc = "done"
    /\ LET best_range == comedi_find_range(AI, channel, 0, 10)
           frame == [NewCall("get_data") EXCEPT
                        !.chans = <<channel>>, !.ranges = <<best_range>>,
                        !.nscans = size, !.stop_arg = size]
       IN  \/ /\ best_range < 0
              /\ call' = Raise(frame, "OverflowError: cr_pack")
           \/ \E ret \in {-1, 0} :
                call' = IF ret < 0
                        THEN Raise(frame, "IOError: comedi_get_cmd_generic failed")
                        ELSE [frame EXCEPT !.start_src = TRIG_NOW, !.pc = "test1"]
    /\ pre' = Snapshot
    /\ UNCHANGED <<hw, stage, view, SessionVars, CacheVars, busy>>

get_data_test1 ==
    /\ call.op = "get_data" /\ call.pc = "test1"
    /\ \E rc \in TestCodes : \E arg \in Adjusted(call.stop_arg, rc) :
        call' = command_test_first(call, rc, arg)
    /\ UNCHANGED <<hw, stage, view, SessionVars, CacheVars, busy, pre>>

get_data_test2 ==
    /\ call.op = "get_data" /\ call.pc = "test2"
    /\ \E rc \in TestCodes : \E arg \in Adjusted(call.stop_arg, rc) :
        call' = command_test_second(call, rc, arg)
    /\ UNCHANGED <<hw, stage, view, SessionVars, CacheVars, busy, pre>>

get_data_command ==
    /\ call.op = "get_data" /\ call.pc = "command"
    /\ \E ret \in CommandAnswers(AI) :
        /\ call' = comedi_command(call, ret, "read")
        /\ busy' = IF ret < 0 THEN busy ELSE busy \cup {AI}
    /\ UNCHANGED <<hw, stage, view, SessionVars, CacheVars, pre>>

\* _get_dtype, then numpy.fromfile: the device delivers at most the count asked
get_data_read ==
    /\ call.op = "get_data" /\ call.pc = "read"
    /\ \E flags_ok \in BOOLEAN :
        LET itemsize == _get_dtype(AI, flags_ok)
            count == call.nscans * Len(call.chans)
        IN  IF itemsize < 0
            THEN call' = Raise(call, "IOError: Failed to get subdevice flags")
            ELSE \E buf \in SeqUpTo(SampleCodes, count) :
                    call' = [call EXCEPT !.itemsize = itemsize, !.buf = buf,
                                         !.io = Len(buf) * itemsize,
                                         !.transfers = <<count * itemsize>>,
                                         !.log = Append(@, "read"),
                                         !.pc = "cancel"]
    /\ UNCHANGED <<hw, stage, view, SessionVars, CacheVars, busy, pre>>

get_data_cancel ==
    /\ call.op = "get_data" /\ call.pc = "cancel"
    /\ call' = [call EXCEPT !.cancels = @ + 1, !.log = Append(@, "cancel"),
                            !.pc = "convert"]
    /\ \E rc \in {-1, 0} : busy' = IF rc < 0 THEN busy ELSE busy \ {AI}
    /\ UNCHANGED <<hw, stage, view, SessionVars, CacheVars, pre>>

\* conversion of the samples received, then parray.shape = (nscans, nchans)
get_data_convert ==
    /\ call.op = "get_data" /\ call.pc = "convert"
    /\ IF call.ranges[1] < 0
       THEN call' = Raise(call, "OverflowError: range")
       ELSE \E lookup_ok \in LookupAnswers(AI) :
            LET res == _get_converter(AI, call.chans[1], call.ranges[1],
                                      COMEDI_TO_PHYSICAL, lookup_ok)
                parray == [i \in 1 .. Len(call.buf) |->
                                Apply(res.converter, call.buf[i])]
                f == [call EXCEPT !.nresolutions = @ + 1, !.resolution = res]
            IN  call' = IF Len(call.buf) # call.nscans * Len(call.chans)
                      THEN Raise(f, "ValueError: total size of new array must be unchanged")
                      ELSE Return([f EXCEPT !.ret = parray])
    /\ UNCHANGED <<hw, stage, view, SessionVars, CacheVars, busy, pre>>

----------------------------------------------------------------------------
(* Write path: write_data(channels, period, data) *)

\* Inputs: a channel list and, per column of data, the span of its values
WriteInputs ==
    { [channels |-> <<0>>, spans |-> << <<-5, 5>> >>],
      [channels |-> <<0>>, spans |-> << <<-20, 20>> >>],
      [channels |-> <<0, 1>>, spans |-> << <<-5, 5>>, <<0, 1>> >>],
      [channels |-> <<1, 0>>, spans |-> << <<0, 1>>, <<-5, 5>> >>],
      [channels |-> <<0, 1>>, spans |-> << <<-5, 5>>, <<-20, 20>> >>] }

\* column of n values going from span[1] to span[2] (volts)
Column(span, n) ==
    [t \in 1 .. n |->
        IF n = 1 THEN span[1]
        ELSE span[1] + ((span[2] - span[1]) * (t - 1)) \div (n - 1)]

\* data (time x channel) whose column i covers spans[i]
Waveform(spans, n) ==
    [t \in 1 .. n |-> [i \in 1 .. Len(spans) |-> Column(spans[i], n)[t]]]

SeqMin(col) == CHOOSE m \in {col[t] : t \in 1 .. Len(col)} :
                    \A t \in 1 .. Len(col) : m <= col[t]
SeqMax(col) == CHOOSE m \in {col[t] : t \in 1 .. Len(col)} :
                    \A t \in 1 .. Len(col) : m >= col[t]
DataColumn(data, i) == [t \in 1 .. Len(data) |-> data[t][i]]

\* range search that settles for range 0 when no range covers the column
best_range_clipping(channels, data, i) ==
    LET found == comedi_find_range(AO, channels[i], SeqMin(DataColumn(data, i)),
                                   SeqMax(DataColumn(data, i)))
    IN  IF found < 0 THEN 0 ELSE found

\* range chosen for column i: comedi_find_range over the column's min and max
best_range(channels, data, i) ==
    comedi_find_range(AO, channels[i], SeqMin(DataColumn(data, i)),
                      SeqMax(DataColumn(data, i)))

\* buffer sizes (bytes) reported by comedi_get_buffer_size
BufferSizes == {2, 64}

\* clock of the completion wait, relative to start_time:
\* 0: before start_time + expected, 1: from then until end_time, 2: end_time passed
BeforeExpected == 0
BeforeEnd == 1
AfterEnd == 2
Later(now) == now .. AfterEnd

write_data(channels, data) ==
    /\ session = "ready" /\ call.pc = "done"
    /\ Len(data) > 0
    /\ LET nchans == Len(channels)
           ranges == [i \in 1 .. nchans |-> best_range(channels, data, i)]
           frame == [NewCall("write_data") EXCEPT
                        !.chans = channels, !.data = data,
                        !.nscans = Len(data), !.stop_arg = Len(data)]
       IN  IF \E i \in 1 .. nchans : ranges[i] < 0
           THEN call' = Raise(frame, "IOError: Data range is too high for hardware")
           ELSE \E rc \in {-1, 0} :
                    call' = IF rc < 0
                            THEN Raise([frame EXCEPT !.ranges = ranges],
                                       "IOError: comedi_get_cmd_generic failed")
                            ELSE [frame EXCEPT !.ranges = ranges,
                                               !.start_src = TRIG_INT,
                                               !.pc = "test1"]
    /\ pre' = Snapshot
    /\ UNCHANGED <<hw, stage, view, SessionVars, CacheVars, busy>>

write_data_test1 ==
    /\ call.op = "write_data" /\ call.pc = "test1"
    /\ \E rc \in TestCodes : \E arg \in Adjusted(call.stop_arg, rc) :
        call' = command_test_first(call, rc, arg)
    /\ UNCHANGED <<hw, stage, view, SessionVars, CacheVars, busy, pre>>

write_data_test2 ==
    /\ call.op = "write_data" /\ call.pc = "test2"
    /\ \E rc \in TestCodes : \E arg \in Adjusted(call.stop_arg, rc) :
        call' = command_test_second(call, rc, arg)
    /\ UNCHANGED <<hw, stage, view, SessionVars, CacheVars, busy, pre>>

write_data_command ==
    /\ call.op = "write_data" /\ call.pc = "command"
    /\ \E rc \in CommandAnswers(AO) :
        /\ call' = comedi_command(call, rc, "dtype")
        /\ busy' = IF rc < 0 THEN busy ELSE busy \cup {AO}
    /\ UNCHANGED <<hw, stage, view, SessionVars, CacheVars, pre>>

write_data_dtype ==
    /\ call.op = "write_data" /\ call.pc = "dtype"
    /\ \E flags_ok \in BOOLEAN :
        LET itemsize == _get_dtype(AO, flags_ok)
        IN  call' = IF itemsize < 0
                    THEN Raise(call, "IOError: Failed to get subdevice flags")
                    ELSE [call EXCEPT !.itemsize = itemsize, !.pc = "converters"]
    /\ UNCHANGED <<hw, stage, view, SessionVars, CacheVars, busy, pre>>

\* one turn of the loop that resolves the converter of each channel
write_data_converters ==
    /\ call.op = "write_data" /\ call.pc = "converters"
    /\ Len(call.converters) < Len(call.chans)
    /\ \E lookup_ok \in LookupAnswers(AO) :
        LET i == Len(call.converters) + 1
            res == _get_converter(AO, call.chans[i], call.ranges[i],
                                  COMEDI_FROM_PHYSICAL, lookup_ok)
        IN  call' = [call EXCEPT !.converters = Append(@, res.converter),
                                 !.nresolutions = @ + 1, !.resolution = res]
    /\ UNCHANGED <<hw, stage, view, SessionVars, CacheVars, busy, pre>>

\* raw code (an lsampl_t, 32 bits) stored in a buffer item of the given size
Store(raw, itemsize) == IF itemsize = 2 THEN raw % 65536 ELSE raw

\* every sample converted with the converter of the other end of the channel list
RawBuffer_crossed(data, converters, itemsize) ==
    LET nchans == Len(converters)
    IN  [k \in 1 .. Len(data) * nchans |->
            LET t == ((k - 1) \div nchans) + 1
                i == ((k - 1) % nchans) + 1
            IN  Store(Apply(converters[nchans + 1 - i], Volt(data[t][i])), itemsize)]

\* buf[i] = converters[i[1]](v), flattened in C order (time-major)
RawBuffer(data, converters, itemsize) ==
    LET nchans == Len(converters)
    IN  [k \in 1 .. Len(data) * nchans |->
            LET t == ((k - 1) \div nchans) + 1
                i == ((k - 1) % nchans) + 1
            IN  Store(Apply(converters[i], Volt(data[t][i])), itemsize)]

\* preload handed to the device without flushing the file
write_data_preload_unflushed ==
    /\ call.op = "write_data" /\ call.pc = "converters"
    /\ Len(call.converters) = Len(call.chans)
    /\ \E dev_buf_size \in BufferSizes :
        LET buf == RawBuffer(call.data, call.converters, call.itemsize)
            preload_size == dev_buf_size \div call.itemsize
            written == IF preload_size < Len(buf) THEN preload_size ELSE Len(buf)
        IN  call' = [call EXCEPT !.buf = buf, !.preload = written,
                                 !.io = written * call.itemsize,
                                 !.transfers = <<written * call.itemsize>>,
                                 !.dev_buf_size = dev_buf_size,
                                 !.written = SubSeq(buf, 1, written),
                                 !.log = @ \o <<"write">>,
                                 !.pc = "trigger"]
    /\ UNCHANGED <<hw, stage, view, SessionVars, CacheVars, busy, pre>>

\* conversion of the data, preload of the device buffer, flush
write_data_preload ==
    /\ call.op = "write_data" /\ call.pc = "converters"
    /\ Len(call.converters) = Len(call.chans)
    /\ \E dev_buf_size \in BufferSizes :
        LET buf == RawBuffer(call.data, call.converters, call.itemsize)
            preload_size == dev_buf_size \div call.itemsize
            written == IF preload_size < Len(buf) THEN preload_size ELSE Len(buf)
        IN  call' = [call EXCEPT !.buf = buf, !.preload = written,
                                 !.io = written * call.itemsize,
                                 !.transfers = <<written * call.itemsize>>,
                                 !.dev_buf_size = dev_buf_size,
                                 !.written = SubSeq(buf, 1, written),
                                 !.log = @ \o <<"write", "flush">>,
                                 !.pc = "trigger"]
    /\ UNCHANGED <<hw, stage, view, SessionVars, CacheVars, busy, pre>>

\* start_time = time.time(); comedi_internal_trigger
write_data_trigger ==
    /\ call.op = "write_data" /\ call.pc = "trigger"
    /\ \E rc \in {-1, 0} :
        call' = IF rc < 0
                THEN Raise([call EXCEPT !.now = BeforeExpected],
                           "IOError: comedi_internal_trigger failed")
                ELSE [call EXCEPT !.now = BeforeExpected,
                                  !.log = Append(@, "trigger"), !.pc = "stream"]
    /\ UNCHANGED <<hw, stage, view, SessionVars, CacheVars, busy, pre>>

\* remainder taken from the start of the buffer: the preload is written again
write_data_stream_whole ==
    /\ call.op = "write_data" /\ call.pc = "stream"
    /\ \E now \in Later(call.now) :
        call' = [call EXCEPT !.io = Len(call.buf) * call.itemsize,
                             !.transfers = Append(@, Len(call.buf) * call.itemsize),
                             !.written = @ \o call.buf,
                             !.log = @ \o <<"write", "flush">>,
                             !.now = now, !.pc = "sleep"]
    /\ UNCHANGED <<hw, stage, view, SessionVars, CacheVars, busy, pre>>

\* the remainder of the buffer, flush; it takes any time
write_data_stream ==
    /\ call.op = "write_data" /\ call.pc = "stream"
    /\ \E now \in Later(call.now) :
        call' = [call EXCEPT !.io = Len(call.buf) * call.itemsize,
                             !.transfers = Append(@,
                                (Len(call.buf) - call.preload) * call.itemsize),
                             !.written = @ \o SubSeq(call.buf, call.preload + 1,
                                                     Len(call.buf)),
                             !.log = @ \o <<"write", "flush">>,
                             !.now = now, !.pc = "sleep"]
    /\ UNCHANGED <<hw, stage, view, SessionVars, CacheVars, busy, pre>>

\* time.sleep(start_time + expected - time.time()): a negative argument is
\* refused by time.sleep with IOError (EINVAL)
write_data_sleep ==
    /\ call.op = "write_data" /\ call.pc = "sleep"
    /\ IF call.now > BeforeExpected
       THEN call' = Raise([call EXCEPT !.log = Append(@, "wait")],
                          "IOError: Invalid argument")
       ELSE \E now \in {BeforeEnd, AfterEnd} :
                call' = [call EXCEPT !.now = now, !.had_timeout = TRUE,
                                     !.log = Append(@, "wait"), !.pc = "poll"]
    /\ UNCHANGED <<hw, stage, view, SessionVars, CacheVars, busy, pre>>

\* polling loop without the test of the time: it ends only on the flags
write_data_poll_unbounded ==
    /\ call.op = "write_data" /\ call.pc = "poll"
    /\ \E flags_ok, running \in BOOLEAN : \E now \in Later(call.now) :
            call' = IF ~flags_ok
                    THEN Raise(call, "IOError: Failed to get subdevice flags")
                    ELSE IF ~running
                    THEN [call EXCEPT !.had_timeout = FALSE,
                                      !.sdf_running = "clear", !.pc = "cancel"]
                    ELSE [call EXCEPT !.sdf_running = "set", !.now = now]
    /\ UNCHANGED <<hw, stage, view, SessionVars, CacheVars, busy, pre>>

\* one turn of: while time.time() < end_time.  sdf_running keeps what the
\* last comedi_get_subdevice_flags said of SDF_RUNNING.
write_data_poll ==
    /\ call.op = "write_data" /\ call.pc = "poll"
    /\ IF call.now >= AfterEnd
       THEN call' = [call EXCEPT !.pc = "cancel"]
       ELSE \E flags_ok, running \in BOOLEAN : \E now \in Later(call.now) :
                call' = IF ~flags_ok
                        THEN Raise(call, "IOError: Failed to get subdevice flags")
                        ELSE IF ~running
                        THEN [call EXCEPT !.had_timeout = FALSE,
                                          !.sdf_running = "clear", !.pc = "cancel"]
                        ELSE [call EXCEPT !.sdf_running = "set", !.now = now]
    /\ UNCHANGED <<hw, stage, view, SessionVars, CacheVars, busy, pre>>

\* comedi_cancel (a failure is only logged), then the timeout is reported
write_data_cancel ==
    /\ call.op = "write_data" /\ call.pc = "cancel"
    /\ \E rc \in {-1, 0} :
        /\ busy' = IF rc < 0 THEN busy ELSE busy \ {AO}
        /\ call' = LET f == [call EXCEPT !.cancels = @ + 1,
                                         !.log = Append(@, "cancel")]
                   IN  IF call.had_timeout
                       THEN Raise(f, "IOError: Write command stopped due to timeout")
                       ELSE Return(f)
    /\ UNCHANGED <<hw, stage, view, SessionVars, CacheVars, pre>>

----------------------------------------------------------------------------
(* Teardown *)

\* terminate that leaves self._device set after closing it
terminate_keeping_handle ==
    /\ session \in {"ready", "terminated"} /\ call.pc = "done"
    /\ teardown.calls < MaxTerminate
    /\ LET cleanup == IF calibration # None
                      THEN <<"comedi_cleanup_calibration">> ELSE << >>
           close == IF device # None THEN <<"comedi_close">> ELSE << >>
       IN  teardown' = [calls |-> teardown.calls + 1,
                        log |-> teardown.log \o cleanup \o close]
    /\ calibration' = None
    /\ device' = device
    /\ session' = "terminated"
    /\ call' = Return(NewCall("terminate"))
    /\ pre' = Snapshot
    /\ UNCHANGED <<hw, stage, view, init_log, CacheVars, busy>>

\* terminate: comedi_cleanup_calibration if a blob is held, comedi_close if
\* the handle is held; both attributes are reset
terminate ==
    /\ session \in {"ready", "terminated"} /\ call.pc = "done"
    /\ teardown.calls < MaxTerminate
    /\ LET cleanup == IF calibration # None
                      THEN <<"comedi_cleanup_calibration">> ELSE << >>
           close == IF device # None THEN <<"comedi_close">> ELSE << >>
       IN  teardown' = [calls |-> teardown.calls + 1,
                        log |-> teardown.log \o cleanup \o close]
    /\ calibration' = None
    /\ device' = None
    /\ session' = "terminated"
    /\ call' = Return(NewCall("terminate"))
    /\ pre' = Snapshot
    /\ UNCHANGED <<hw, stage, view, init_log, CacheVars, busy>>

----------------------------------------------------------------------------
(* The session: construction, temperature read-out, read and write paths *)

Next ==
    \/ __init__
    \/ getTemperatureSCB
    \/ \E c \in Channels, n \in 0 .. MaxScans : get_data(c, n)
    \/ get_data_test1
    \/ get_data_test2
    \/ get_data_command
    \/ get_data_read
    \/ get_data_cancel
    \/ get_data_convert
    \/ \E w \in WriteInputs, n \in 1 .. MaxScans :
            write_data(w.channels, Waveform(w.spans, n))
    \/ write_data_test1
    \/ write_data_test2
    \/ write_data_command
    \/ write_data_dtype
    \/ write_data_converters
    \/ write_data_preload
    \/ write_data_trigger
    \/ write_data_stream
    \/ write_data_sleep
    \/ write_data_poll
    \/ write_data_cancel
    \/ terminate

Spec == Init /\ [][Next]_vars

(* The write path alone, with the progress the code's execution gives: *)
(* time.sleep returns, the clock advances while the loop polls, the loop   *)
(* ends when its test of the time fails, comedi_cancel returns.            *)

\* a turn of the polling loop during which the clock reached a later region
Elapse == write_data_poll /\ call'.now > call.now

\* the test time.time() < end_time failing: the loop ends without a poll
Deadline ==
    /\ write_data_poll
    /\ call.now >= AfterEnd
    /\ call'.pc = "cancel" /\ call'.sdf_running = call.sdf_running

NextWrite ==
    \/ __init__
    \/ \E w \in WriteInputs, n \in 1 .. MaxScans :
            write_data(w.channels, Waveform(w.spans, n))
    \/ write_data_test1
    \/ write_data_test2
    \/ write_data_command
    \/ write_data_dtype
    \/ write_data_converters
    \/ write_data_preload
    \/ write_data_trigger
    \/ write_data_stream
    \/ write_data_sleep
    \/ write_data_poll
    \/ write_data_cancel

SpecWrite ==
    /\ Init /\ [][NextWrite]_vars
    /\ WF_vars(write_data_sleep)
    /\ WF_vars(Elapse)
    /\ WF_vars(Deadline)
    /\ WF_vars(write_data_cancel)

(* The converter cache alone: any sequence of _to_phys / _from_phys calls *)

InitCache == Init /\ hw \in CacheBoards

NextCache ==
    \/ __init__
    \/ getTemperatureSCB
    \/ \E r \in RangeIndices, v \in RawCodes : _to_phys(AI, 0, r, v)
    \/ \E r \in RangeIndices, v \in PhysValues : _from_phys(AO, 0, r, v)

SpecCache == InitCache /\ [][NextCache]_vars

(* Every call of the session, on the 16 bit boards with the wide ranges whose
   subdevices are both hardware-calibrated or both soft-calibrated *)

SpecCalls == InitCache /\ [][Next]_vars

(* Round trip of one raw code: _from_phys(s, c, r, _to_phys(s, c, r, raw)) *)

\* a session about to convert the raw code `raw` on (AI, channel 0, range)
InitRoundTrip ==
    /\ hw \in Boards \cap CacheBoards
    /\ session = "new"
    /\ device = None
    /\ calibration = None
    /\ convert_to_phys = EmptyCache
    /\ convert_from_phys = EmptyCache
    /\ busy = {}
    /\ init_log = NoInitLog
    /\ call \in {[NewCall("round_trip") EXCEPT !.chans = <<0>>,
                                               !.ranges = <<range>>,
                                               !.buf = <<raw>>] :
                    raw \in 0 .. MaxData, range \in RangeIndices}
    /\ pre = Snapshot
    /\ nresolved = [d \in Directions |-> [k \in Keys |-> 0]]
    /\ teardown = [calls |-> 0, log |-> << >>]
    /\ stage = NoStage
    /\ view = NoView

\* _to_phys of the raw code, then _from_phys of the value obtained
round_trip ==
    /\ session = "ready" /\ call.op = "round_trip" /\ call.pc = "start"
    /\ \E lookup_to, lookup_from \in LookupAnswers(AI) :
        LET channel == call.chans[1]
            range == call.ranges[1]
            key == <<AI, channel, range>>
            to == CachedConvert(convert_to_phys, AI, channel, range,
                                COMEDI_TO_PHYSICAL, call.buf[1], lookup_to)
            from == CachedConvert(convert_from_phys, AI, channel, range,
                                  COMEDI_FROM_PHYSICAL, to.value, lookup_from)
        IN  \E code \in Results(from.cache[key], to.value) :
            /\ convert_to_phys' = to.cache
            /\ convert_from_phys' = from.cache
            /\ nresolved' =
                    [nresolved EXCEPT
                        ![COMEDI_TO_PHYSICAL][key] = IF to.hit THEN @ ELSE @ + 1,
                        ![COMEDI_FROM_PHYSICAL][key] = IF from.hit THEN @ ELSE @ + 1]
            /\ call' = Return([call EXCEPT !.ret = <<to.value>>,
                                           !.data = <<code>>,
                                           !.nresolutions = 2])
    /\ pre' = Snapshot
    /\ UNCHANGED <<hw, stage, view, SessionVars, busy>>

NextRoundTrip ==
    \/ __init__
    \/ round_trip

SpecRoundTrip == InitRoundTrip /\ [][NextRoundTrip]_vars

----------------------------------------------------------------------------
(* _generate_scan_array(shape, limits): a static method, no session needed *)

\* exact numbers: num / den with den > 0
Rat(num, den) == [num |-> num, den |-> den]
Same(p, q) == p.num * q.den = q.num * p.den

\* linspace leaving the end point out (endpoint=False)
linspace_endpoint_excluded(start, stop, num) ==
    [i \in 1 .. num |-> Rat(start * num + (i - 1) * (stop - start), num)]

\* numpy.linspace(start, stop, num): num points, both ends included
linspace(start, stop, num) ==
    [i \in 1 .. num |->
        IF num = 1 THEN Rat(start, 1)
        ELSE Rat(start * (num - 1) + (i - 1) * (stop - start), num - 1)]

\* value stored in an array of the type of the limits; the conversion of a
\* float to an integer type is towards zero
Cast(q, dtype) ==
    IF dtype # "int" THEN q
    ELSE IF q.num >= 0 THEN Rat(q.num \div q.den, 1)
    ELSE Rat(-((-q.num) \div q.den), 1)

\* the array read with the first axis fastest (Fortran order)
Flatten_fortran(scan, shape) ==
    [k \in 1 .. shape[1] * shape[2] |->
        scan[((k - 1) % shape[1]) + 1][((k - 1) \div shape[1]) + 1]]

\* scan.shape = [shape[0] * shape[1], 2] on a C ordered array
Flatten(scan, shape) ==
    [k \in 1 .. shape[1] * shape[2] |->
        scan[((k - 1) \div shape[2]) + 1][((k - 1) % shape[2]) + 1]]

\* scan[x, y, 0] = linspace over X at x (through the swapped view),
\* scan[x, y, 1] = linspace over Y at y
ScanArray(shape, limits, dtype) ==
    LET scanx == linspace(limits[1][1], limits[1][2], shape[1])
        scany == linspace(limits[2][1], limits[2][2], shape[2])
        scan == [x \in 1 .. shape[1] |-> [y \in 1 .. shape[2] |->
                    <<Cast(scanx[x], dtype), Cast(scany[y], dtype)>>]]
    IN  Flatten(scan, shape)

\* limits given: X min/max, Y min/max (either way round, or equal)
ScanLimits ==
    { << <<0, 3>>, <<-5, 5>> >>,
      << <<-2, 2>>, <<0, 1>> >>,
      << <<4, -4>>, <<1, 1>> >> }

ScanTypes == {"int", "float"}

_generate_scan_array ==
    /\ call.op = "_generate_scan_array" /\ call.pc = "start"
    /\ call' = Return([call EXCEPT
                        !.ret = ScanArray(call.shape, call.limits, call.dtype)])
    /\ UNCHANGED <<hw, stage, view, SessionVars, CacheVars, busy, pre>>

InitScan ==
    /\ hw \in Boards \cap CacheBoards
    /\ session = "new"
    /\ device = None
    /\ calibration = None
    /\ convert_to_phys = EmptyCache
    /\ convert_from_phys = EmptyCache
    /\ busy = {}
    /\ init_log = NoInitLog
    /\ call \in {[NewCall("_generate_scan_array") EXCEPT
                        !.shape = <<rows, cols>>, !.limits = limits,
                        !.dtype = dtype] :
                    rows \in 0 .. MaxShape, cols \in 0 .. MaxShape,
                    limits \in ScanLimits, dtype \in ScanTypes}
    /\ pre = Snapshot
    /\ nresolved = [d \in Directions |-> [k \in Keys |-> 0]]
    /\ teardown = [calls |-> 0, log |-> << >>]
    /\ stage = NoStage
    /\ view = NoView

NextScan == _generate_scan_array

SpecScan == InitScan /\ [][NextScan]_vars

----------------------------------------------------------------------------
(* SEMComedi.scan(): enumeration of the comedi devices fit for the driver *)

MaxDevices == 3     \* largest number of /dev/comedi? files found by glob

\* a board with one AI subdevice of 16 channels and one AO subdevice of 2
FitDevice(board) ==
    [opens |-> TRUE, ai |-> 0, number_ai |-> 16, ao |-> 1, number_ao |-> 2,
     board |-> board]

\* what can stand behind a /dev/comedi? file
Devices ==
    {FitDevice("ni_pcie6251"), FitDevice("ni_pci6024e"),
     [FitDevice("ni_pcie6251") EXCEPT !.opens = FALSE],
     [FitDevice("ni_pcie6251") EXCEPT !.ai = -1],
     [FitDevice("ni_pcie6251") EXCEPT !.number_ai = 0],
     [FitDevice("ni_pcie6251") EXCEPT !.ao = -1],
     [FitDevice("ni_pcie6251") EXCEPT !.number_ao = 1],
     [FitDevice("ni_pcie6251") EXCEPT !.number_ai = 1, !.number_ao = 4]}

\* body of the try block with one AO channel taken as enough
scan_check_one_output(d) ==
    IF d.ai < 0 THEN FALSE
    ELSE IF d.number_ai < 1 THEN FALSE
    ELSE IF d.ao < 0 THEN FALSE
    ELSE IF d.number_ao < 1 THEN FALSE
    ELSE TRUE

\* body of the try block: TRUE when the device is appended to found
scan_check(d) ==
    IF d.ai < 0 THEN FALSE
    ELSE IF d.number_ai < 1 THEN FALSE
    ELSE IF d.ao < 0 THEN FALSE
    ELSE IF d.number_ao < 2 THEN FALSE
    ELSE TRUE

\* comedi calls made for the n-th file when the device is closed at the end
\* of the try block only, not in a finally clause
scan_calls_no_finally(names, n, raises) ==
    IF ~names[n].opens THEN <<<<"open", n>>>>
    ELSE IF n # raises /\ scan_check(names[n])
    THEN <<<<"open", n>>, <<"close", n>>>>
    ELSE <<<<"open", n>>>>

\* comedi calls made for the n-th file: comedi_open, and comedi_close in the
\* finally clause when the device opened
scan_calls(names, n, raises) ==
    IF ~names[n].opens THEN <<<<"open", n>>>>
    ELSE <<<<"open", n>>, <<"close", n>>>>

RECURSIVE scan_loop(_, _, _, _, _)
\* the for loop over names from position n on, with found and the comedi
\* calls; raises is the position of the device during whose check an
\* exception is raised inside the try block (0: none)
scan_loop(names, n, found, log, raises) ==
    IF n > Len(names) THEN [found |-> found, log |-> log, result |-> "return"]
    ELSE IF ~names[n].opens
    THEN scan_loop(names, n + 1, found, log \o scan_calls(names, n, raises), raises)
    ELSE IF n = raises
    THEN [found |-> found, log |-> log \o scan_calls(names, n, raises),
          result |-> "KeyboardInterrupt"]
    ELSE scan_loop(names, n + 1,
                   IF scan_check(names[n])
                   THEN Append(found, [name |-> <<"SEM/", names[n].board>>,
                                       kwargs |-> [device |-> n]])
                   ELSE found,
                   log \o scan_calls(names, n, raises), raises)

\* SEMComedi.scan(): the n-th file found by glob is the device names[n]
scan ==
    /\ call.op = "scan" /\ call.pc = "start"
    /\ LET res == scan_loop(call.names, 1, << >>, << >>, call.raises)
       IN  call' = IF res.result = "return"
                   THEN Return([call EXCEPT !.ret = res.found, !.log = res.log])
                   ELSE Raise([call EXCEPT !.log = res.log], res.result)
    /\ UNCHANGED <<hw, stage, view, SessionVars, CacheVars, busy, pre>>

InitEnum ==
    /\ hw = [flags |-> BoardFlags({}, FALSE), ranges |-> WideRanges]
    /\ session = "new"
    /\ device = None
    /\ calibration = None
    /\ convert_to_phys = EmptyCache
    /\ convert_from_phys = EmptyCache
    /\ busy = {}
    /\ init_log = NoInitLog
    /\ call \in {[NewCall("scan") EXCEPT !.names = names, !.raises = raises] :
                    names \in SeqUpTo(Devices, MaxDevices),
                    raises \in 0 .. MaxDevices}
    /\ pre = Snapshot
    /\ nresolved = [d \in Directions |-> [k \in Keys |-> 0]]
    /\ teardown = [calls |-> 0, log |-> << >>]
    /\ stage = NoStage
    /\ view = NoView

NextEnum == scan

SpecEnum == InitEnum /\ [][NextEnum]_vars

----------------------------------------------------------------------------
(* combined_stage.py: CombinedStage, a two-axis adapter in front of one child *)
(* actuator.  Coordinates are integers (a common small unit).                *)

\* rotations whose cosine and sine math.cos / math.sin give exactly
Rotations == {0}

Cos(rotation) == CASE rotation = 0 -> 1

Sin(rotation) == CASE rotation = 0 -> 0

\* a 2 x 2 numpy array: its dtype and its rows
Matrix(dtype, a, b, c, d) == [dtype |-> dtype, m |-> <<<<a, b>>, <<c, d>>>>]

\* self._R: built from math.cos / math.sin, so always an array of floats
_R(rotation) ==
    Matrix("float", Cos(rotation), 0 - Sin(rotation), Sin(rotation), Cos(rotation))

\* self._L: the scale is a tuple of floats
_L(scale) == Matrix("float", scale[1], 0, 0, scale[2])

\* ndarray.dot of two matrices; the result is float as soon as one operand is
Dot(M, N) ==
    [dtype |-> IF "float" \in {M.dtype, N.dtype} THEN "float" ELSE "int",
     m |-> [i \in 1 .. 2 |-> [j \in 1 .. 2 |->
                M.m[i][1] * N.m[1][j] + M.m[i][2] * N.m[2][j]]]]

\* ndarray.dot of a matrix and a vector
MatVec(M, v) == [i \in 1 .. 2 |-> M.m[i][1] * v[1] + M.m[i][2] * v[2]]

InvertError == "TypeError: ufunc 'invert' not supported for the input types"

\* numpy.invert: the bitwise NOT of every element, defined on integers only
numpy_invert(M) ==
    IF M.dtype = "float"
    THEN [error |-> InvertError, value |-> M]
    ELSE [error |-> "none",
          value |-> [M EXCEPT !.m = [i \in 1 .. 2 |-> [j \in 1 .. 2 |->
                                        0 - M.m[i][j] - 1]]]]

\* _convertPosFromChild: O + invert(R) . invert(L) . Q
_convertPosFromChild(st, pos_child) ==
    LET ri == numpy_invert(_R(st.rotation))
        li == numpy_invert(_L(st.scale))
    IN  IF ri.error # "none" THEN [error |-> ri.error, value |-> << >>]
        ELSE IF li.error # "none" THEN [error |-> li.error, value |-> << >>]
        ELSE LET v == MatVec(Dot(ri.value, li.value), pos_child)
             IN  [error |-> "none",
                  value |-> <<st.offset[1] + v[1], st.offset[2] + v[2]>>]

\* _convertPosToChild returning the two coordinates exchanged
_convertPosToChild_exchanged(st, pos) ==
    LET v == MatVec(Dot(_L(st.scale), _R(st.rotation)),
                    <<pos[1] - st.offset[1], pos[2] - st.offset[2]>>)
    IN  <<v[2], v[1]>>

\* _convertPosToChild: L . R . (P - O)
_convertPosToChild(st, pos) ==
    MatVec(Dot(_L(st.scale), _R(st.rotation)),
           <<pos[1] - st.offset[1], pos[2] - st.offset[2]>>)

Scales == {<<1, 1>>, <<2, 3>>}
Offsets == {<<0, 0>>, <<1, -2>>}
ChildPositions == {<<0, 0>>, <<2, 3>>, <<-4, 6>>}

\* the dicts given to moveRel / moveAbs: any of the keys "x", "y" may be absent
Shifts == UNION {[keys -> {-1, 0, 2}] : keys \in SUBSET {"x", "y"}}

\* dict.get(key, 0)
Get(dict, key) == IF key \in DOMAIN dict THEN dict[key] ELSE 0

\* a frame of the adapter for a new call
StageCall(op, arg) ==
    [stage EXCEPT !.op = op, !.arg = arg, !.forwarded = << >>,
                  !.result = "none", !.ret = None]

\* _updatePosition: the listener of the child's position
_updatePosition(st, pos_child) ==
    LET vpos == _convertPosFromChild(st, pos_child)
    IN  IF vpos.error # "none"
        THEN [st EXCEPT !.listener = vpos.error]
        ELSE [st EXCEPT !.position = vpos.value, !.listener = "notified"]

\* CombinedStage.__init__.  The listener is called once by subscribe(init=True);
\* an exception it raises either reaches the constructor or is kept by the
\* subscription (VigilantAttribute is outside these sources).
CombinedStage ==
    /\ stage.state = "new"
    /\ \E nchildren \in 0 .. 2, scale \in Scales, rotation \in Rotations,
          offset \in Offsets, propagates \in BOOLEAN :
        LET frame == StageCall("__init__", <<nchildren>>)
            built == [frame EXCEPT !.scale = scale, !.rotation = rotation,
                                   !.offset = offset, !.position = <<0, 0>>,
                                   !.subscribed = TRUE]
            updated == _updatePosition(built, built.child_position)
        IN  stage' =
                IF nchildren # 1
                THEN [frame EXCEPT !.state = "failed",
                        !.result = "ValueError: StageConverted needs 1 child"]
                ELSE IF updated.listener # "notified" /\ propagates
                THEN [updated EXCEPT !.state = "failed",
                                     !.result = updated.listener]
                ELSE [updated EXCEPT !.state = "ready", !.result = "return"]
    /\ UNCHANGED <<hw, view, SessionVars, CacheVars, busy, call, pre>>

\* the child actuator reports a new position to its subscribers
child_position_changed ==
    /\ stage.state \in {"new", "ready"}
    /\ \E pos \in ChildPositions \ {stage.child_position} :
        LET moved == [stage EXCEPT !.child_position = pos]
        IN  stage' = IF stage.subscribed
                     THEN _updatePosition([moved EXCEPT !.op = "_updatePosition",
                                                 !.arg = pos,
                                                 !.forwarded = << >>,
                                                 !.result = "none",
                                                 !.ret = None], pos)
                     ELSE moved
    /\ UNCHANGED <<hw, view, SessionVars, CacheVars, busy, call, pre>>

\* CombinedStage.moveRel
moveRel ==
    /\ stage.state = "ready"
    /\ \E shift \in Shifts :
        LET vshift == <<Get(shift, "x"), Get(shift, "y")>>
            vshift_child == _convertPosToChild(stage, vshift)
            frame == StageCall("moveRel", shift)
        IN  stage' = [frame EXCEPT
                        !.forwarded = <<[op |-> "moveRel",
                                         x |-> vshift_child[1],
                                         y |-> vshift_child[2]]>>,
                        !.result = "return",
                        !.ret = "child.moveRel"]
    /\ UNCHANGED <<hw, view, SessionVars, CacheVars, busy, call, pre>>

\* moveAbs forwarding the position as CombinedStage.moveRel forwards a shift
moveAbs_forwarding ==
    /\ stage.state = "ready"
    /\ \E pos \in Shifts :
        LET vpos_child == _convertPosToChild(stage, <<Get(pos, "x"), Get(pos, "y")>>)
        IN  stage' = [StageCall("moveAbs", pos) EXCEPT
                        !.forwarded = <<[op |-> "moveAbs", x |-> vpos_child[1],
                                         y |-> vpos_child[2]]>>,
                        !.result = "return", !.ret = "child.moveAbs"]
    /\ UNCHANGED <<hw, view, SessionVars, CacheVars, busy, call, pre>>

\* CombinedStage.moveAbs
moveAbs ==
    /\ stage.state = "ready"
    /\ \E pos \in Shifts :
        stage' = [StageCall("moveAbs", pos) EXCEPT
                    !.result = "NotImplementedError: Do you really need that??"]
    /\ UNCHANGED <<hw, view, SessionVars, CacheVars, busy, call, pre>>

\* CombinedStage.stop
stop ==
    /\ stage.state = "ready"
    /\ stage' = [StageCall("stop", << >>) EXCEPT
                    !.forwarded = <<[op |-> "stop", x |-> 0, y |-> 0]>>,
                    !.result = "return"]
    /\ UNCHANGED <<hw, view, SessionVars, CacheVars, busy, call, pre>>

\* the adapter is independent of the DAQ board: one board is enough
InitStage == Init /\ hw = [flags |-> BoardFlags({}, FALSE), ranges |-> WideRanges]

NextStage ==
    \/ CombinedStage
    \/ child_position_changed
    \/ moveRel
    \/ moveAbs
    \/ stop

SpecStage == InitStage /\ [][NextStage]_vars

----------------------------------------------------------------------------
(* gui/instrmodel.py: MicroscopeView, its list of streams *)

MaxCalls == 4       \* largest number of addStream / removeStream calls on a view

\* the streams: "sem" has an image, "optical" an image attribute still empty,
\* "static" no image attribute
Streams == {"sem", "optical", "static"}

HasImageAttribute(stream) == stream \in {"sem", "optical"}

\* stream.image.value and stream.image.value.image
HasImage(stream) == view.image[stream].pixels

\* the images a stream can publish: without pixels, or with pixels and an
\* mpp that is None, 0 or a density in m/px
Images ==
    {NoImage} \cup {[pixels |-> TRUE, mpp |-> m] : m \in {None, "0", "2e-6", "5e-6"}}


\* StreamTree.getStreams of a flat tree: the streams in the list
getStreams == {view.streams[k] : k \in 1 .. Len(view.streams)}

\* list.remove: the list without the first occurrence of item
Remove(list, item) ==
    LET first == CHOOSE k \in 1 .. Len(list) :
                    list[k] = item /\ \A j \in 1 .. (k - 1) : list[j] # item
    IN  [k \in 1 .. (Len(list) - 1) |-> IF k < first THEN list[k] ELSE list[k + 1]]

\* the view one tick later
Tick(v) == [v EXCEPT !.clock = @ + 1]

\* _onNewImage(im); im.mpp is false when it is None or 0
_onNewImage(v, im) ==
    LET first == ~v.has_received_image /\ im.mpp \notin {None, "0"}
    IN  [v EXCEPT !.mpp = IF first THEN im.mpp ELSE @,
                  !.has_received_image = IF first THEN TRUE ELSE @,
                  !.lastUpdate = v.clock]

AllIdle == \A t \in Threads : view.threads[t].pc = "idle"

\* MicroscopeView.__init__
MicroscopeView ==
    /\ view.state = "new"
    /\ \E has_stage \in BOOLEAN :
        view' = [view EXCEPT !.state = "ready", !.lastUpdate = view.clock,
                             !.has_stage = has_stage,
                             !.view_pos = IF has_stage THEN view.stage_pos
                                          ELSE <<0, 0>>]
    /\ UNCHANGED <<hw, stage, SessionVars, CacheVars, busy, call, pre>>

\* addStream with the presence test left out
addStream_unchecked(t, stream) ==
    /\ view.state = "ready" /\ view.threads[t].pc = "idle"
    /\ view.clock < MaxCalls
    /\ view' = [Tick(view) EXCEPT
                    !.threads[t] = [op |-> "addStream", pc |-> "append",
                                    stream |-> stream, result |-> "none"]]
    /\ UNCHANGED <<hw, stage, SessionVars, CacheVars, busy, call, pre>>

\* addStream, up to the lock: the presence test
addStream(t, stream) ==
    /\ view.state = "ready" /\ view.threads[t].pc = "idle"
    /\ view.clock < MaxCalls
    /\ view' = [Tick(view) EXCEPT
                    !.threads[t] =
                        IF stream \in getStreams
                        THEN [op |-> "addStream", pc |-> "idle",
                              stream |-> stream, result |-> "return"]
                        ELSE [op |-> "addStream", pc |-> "append",
                              stream |-> stream, result |-> "none"]]
    /\ UNCHANGED <<hw, stage, SessionVars, CacheVars, busy, call, pre>>

\* addStream: the append, under _streams_lock
addStream_append(t) ==
    /\ view.threads[t].op = "addStream" /\ view.threads[t].pc = "append"
    /\ view' = [view EXCEPT !.streams = Append(@, view.threads[t].stream),
                            !.threads[t].pc = "subscribe"]
    /\ UNCHANGED <<hw, stage, SessionVars, CacheVars, busy, call, pre>>

\* addStream: subscription to the stream's image, _onNewImage if it has one
addStream_subscribe(t) ==
    /\ view.threads[t].op = "addStream" /\ view.threads[t].pc = "subscribe"
    /\ LET stream == view.threads[t].stream
           subscribed == [view EXCEPT !.subscribed = @ \cup {stream}]
           after == IF ~HasImageAttribute(stream) THEN view
                    ELSE IF HasImage(stream)
                    THEN _onNewImage(subscribed, view.image[stream])
                    ELSE subscribed
       IN  view' = [after EXCEPT !.threads[t].pc = "idle",
                                 !.threads[t].result = "return"]
    /\ UNCHANGED <<hw, stage, SessionVars, CacheVars, busy, call, pre>>

\* removeStream, up to the lock: the listener is taken off the stream's image
removeStream(t, stream) ==
    /\ view.state = "ready" /\ view.threads[t].pc = "idle"
    /\ view.clock < MaxCalls
    /\ view' = [Tick(view) EXCEPT
                    !.subscribed = IF HasImageAttribute(stream)
                                   THEN @ \ {stream} ELSE @,
                    !.threads[t] = [op |-> "removeStream", pc |-> "remove",
                                    stream |-> stream, result |-> "none"]]
    /\ UNCHANGED <<hw, stage, SessionVars, CacheVars, busy, call, pre>>

\* removeStream: presence test and list.remove, under _streams_lock
removeStream_remove(t) ==
    /\ view.threads[t].op = "removeStream" /\ view.threads[t].pc = "remove"
    /\ LET stream == view.threads[t].stream
       IN  view' = IF stream \notin getStreams
                   THEN [view EXCEPT !.threads[t].pc = "idle",
                                     !.threads[t].result = "return"]
                   ELSE [view EXCEPT !.streams = Remove(@, stream),
                                     !.threads[t].pc = "update"]
    /\ UNCHANGED <<hw, stage, SessionVars, CacheVars, busy, call, pre>>

\* removeStream: self.lastUpdate.value = time.time()
removeStream_update(t) ==
    /\ view.threads[t].op = "removeStream" /\ view.threads[t].pc = "update"
    /\ view' = [view EXCEPT !.lastUpdate = view.clock,
                            !.threads[t].pc = "idle",
                            !.threads[t].result = "return"]
    /\ UNCHANGED <<hw, stage, SessionVars, CacheVars, busy, call, pre>>

\* a stream publishes an image (stream.image.value = im): the listeners of
\* stream.image are called, _onNewImage of the view when it is subscribed
image_notify(stream, im) ==
    /\ view.state = "ready" /\ view.clock < MaxCalls
    /\ LET published == [Tick(view) EXCEPT !.image[stream] = im]
       IN  view' = IF stream \in view.subscribed THEN _onNewImage(published, im)
                   ELSE published
    /\ UNCHANGED <<hw, stage, SessionVars, CacheVars, busy, call, pre>>

\* _onMergeRatio(ratio), the listener of merge_ratio, called in the thread
\* that sets merge_ratio.value: the merge argument of the stream tree is set
\* under _streams_lock
_onMergeRatio(t, ratio) ==
    /\ view.state = "ready" /\ view.threads[t].pc = "idle"
    /\ view.clock < MaxCalls
    /\ view' = [Tick(view) EXCEPT
                    !.merge = ratio,
                    !.threads[t] = [op |-> "_onMergeRatio", pc |-> "update",
                                    stream |-> None, result |-> "none"]]
    /\ UNCHANGED <<hw, stage, SessionVars, CacheVars, busy, call, pre>>

\* _onMergeRatio, once the lock is released: self.lastUpdate.value = time.time()
_onMergeRatio_update(t) ==
    /\ view.threads[t].op = "_onMergeRatio" /\ view.threads[t].pc = "update"
    /\ view' = [view EXCEPT !.lastUpdate = view.clock,
                            !.threads[t].pc = "idle",
                            !.threads[t].result = "return"]
    /\ UNCHANGED <<hw, stage, SessionVars, CacheVars, busy, call, pre>>

InitView == Init /\ hw = [flags |-> BoardFlags({}, FALSE), ranges |-> WideRanges]

\* sequential use of the view: a call starts when no call is in progress
NextView ==
    \/ MicroscopeView
    \/ \E t \in Threads, stream \in Streams : AllIdle /\ addStream(t, stream)
    \/ \E t \in Threads, stream \in Streams : AllIdle /\ removeStream(t, stream)
    \/ \E t \in Threads : addStream_append(t)
    \/ \E t \in Threads : addStream_subscribe(t)
    \/ \E t \in Threads : removeStream_remove(t)
    \/ \E t \in Threads : removeStream_update(t)
    \/ \E stream \in {x \in Streams : HasImageAttribute(x)}, im \in Images :
            AllIdle /\ image_notify(stream, im)
    \/ \E t \in Threads, ratio \in {"0.3", "0.5"} : AllIdle /\ _onMergeRatio(t, ratio)
    \/ \E t \in Threads : _onMergeRatio_update(t)

SpecView == InitView /\ [][NextView]_vars

\* use of the view by two threads: a thread starts a call whenever it is in
\* none, and the steps of the two calls interleave
NextThreads ==
    \/ MicroscopeView
    \/ \E t \in Threads, stream \in Streams : addStream(t, stream)
    \/ \E t \in Threads, stream \in Streams : removeStream(t, stream)
    \/ \E t \in Threads : addStream_append(t)
    \/ \E t \in Threads : addStream_subscribe(t)
    \/ \E t \in Threads : removeStream_remove(t)
    \/ \E t \in Threads : removeStream_update(t)
    \/ \E stream \in {x \in Streams : HasImageAttribute(x)}, im \in Images :
            image_notify(stream, im)
    \/ \E t \in Threads, ratio \in {"0.3", "0.5"} : _onMergeRatio(t, ratio)
    \/ \E t \in Threads : _onMergeRatio_update(t)

SpecThreads == InitView /\ [][NextThreads]_vars

(* MicroscopeView.moveStageToView *)

MAX_SAFE_MOVE_DISTANCE == 10    \* 10e-3 m, in millimetres

\* positions of the stage and centres of the view (x, y), in millimetres
ViewPositions == {<<0, 0>>, <<6, 8>>, <<8, 8>>, <<-3, 4>>, <<11, 0>>}

\* the back-end updates stage.position
stage_moved ==
    /\ \E pos \in ViewPositions \ {view.stage_pos} :
        view' = [view EXCEPT !.stage_pos = pos]
    /\ UNCHANGED <<hw, stage, SessionVars, CacheVars, busy, call, pre>>

\* the GUI sets view_pos.value
set_view_pos ==
    /\ view.state = "ready"
    /\ \E pos \in ViewPositions \ {view.view_pos} :
        view' = [view EXCEPT !.view_pos = pos]
    /\ UNCHANGED <<hw, stage, SessionVars, CacheVars, busy, call, pre>>

\* math.sqrt(sum of the squares) > limit, decided on the squares
TooFar(move, limit) == move[1] * move[1] + move[2] * move[2] > limit * limit

\* moveStageToView without the test of the distance
moveStageToView_unchecked ==
    /\ view.state = "ready"
    /\ LET move == <<view.view_pos[1] - view.stage_pos[1],
                     view.view_pos[2] - view.stage_pos[2]>>
           frame == [op |-> "moveStageToView", forwarded |-> << >>, ret |-> None,
                     from |-> view.stage_pos, to |-> view.view_pos]
       IN  view' = [view EXCEPT !.last =
                IF ~view.has_stage THEN frame
                ELSE [frame EXCEPT
                        !.forwarded = <<[op |-> "moveRel", x |-> move[1],
                                         y |-> move[2]]>>,
                        !.ret = "stage.moveRel"]]
    /\ UNCHANGED <<hw, stage, SessionVars, CacheVars, busy, call, pre>>

\* MicroscopeView.moveStageToView
moveStageToView ==
    /\ view.state = "ready"
    /\ LET move == <<view.view_pos[1] - view.stage_pos[1],
                     view.view_pos[2] - view.stage_pos[2]>>
           frame == [op |-> "moveStageToView", forwarded |-> << >>, ret |-> None,
                     from |-> view.stage_pos, to |-> view.view_pos]
       IN  view' = [view EXCEPT !.last =
                IF ~view.has_stage THEN frame
                ELSE IF TooFar(move, MAX_SAFE_MOVE_DISTANCE) THEN frame
                ELSE [frame EXCEPT
                        !.forwarded = <<[op |-> "moveRel", x |-> move[1],
                                         y |-> move[2]]>>,
                        !.ret = "stage.moveRel"]]
    /\ UNCHANGED <<hw, stage, SessionVars, CacheVars, busy, call, pre>>

NextMove ==
    \/ MicroscopeView
    \/ stage_moved
    \/ set_view_pos
    \/ moveStageToView

SpecMove == InitView /\ [][NextMove]_vars

----------------------------------------------------------------------------
(* Properties *)

KeyOf(frame, i) == <<IF frame.op = "write_data" THEN AO ELSE AI,
                     frame.chans[i], frame.ranges[i]>>

Ended(op) == call.op = op /\ call.pc = "done"

IsError(result) == result \notin {"none", "return"}

ValidationErrors ==
    {"IOError: comedi_command_test failed", "IOError: failed to prepare command"}

\* C1: in any sequence of _to_phys / _from_phys calls a key is resolved at
\* most once, a stored converter is never replaced or removed, and every
\* call returns what the stored converter gives for its input.
C1_ResolvedOncePerKey ==
    /\ [](\A d \in Directions : \A k \in Keys : nresolved[d][k] <= 1)
    /\ [][\A k \in Keys :
            /\ convert_to_phys[k].tier # None
                    => convert_to_phys'[k] = convert_to_phys[k]
            /\ convert_from_phys[k].tier # None
                    => convert_from_phys'[k] = convert_from_phys[k]]_vars
    /\ [](/\ Ended("_to_phys") =>
                call.ret[1] = Apply(convert_to_phys[KeyOf(call, 1)], call.buf[1])
          /\ Ended("_from_phys") =>
                call.buf[1] \in Results(convert_from_phys[<<AO, call.chans[1], call.ranges[1]>>],
                                        call.ret[1]))

\* a _to_phys call served from the cache with the linear converter although
\* the subdevice is hardware-calibrated (a fresh lookup could succeed)
C1_Witness ==
    /\ Ended("_to_phys") /\ call.nresolutions = 0
    /\ convert_to_phys[KeyOf(call, 1)].tier = "linear"
    /\ SDF_SOFT_CALIBRATED \notin hw.flags[AI]

\* C2: a get_data / write_data call that returns leaves the key of each of
\* its channels in the converter cache and resolves nothing for a key that
\* was cached when it started.
C2_ReadWriteThroughCache ==
    (call.op \in {"get_data", "write_data"} /\ call.pc = "done"
     /\ call.result = "return") =>
        LET cache == IF call.op = "get_data" THEN convert_to_phys
                     ELSE convert_from_phys
            before == IF call.op = "get_data" THEN pre.convert_to_phys
                      ELSE pre.convert_from_phys
        IN  /\ \A i \in 1 .. Len(call.chans) : cache[KeyOf(call, i)].tier # None
            /\ (\A i \in 1 .. Len(call.chans) : before[KeyOf(call, i)].tier # None)
                    => call.nresolutions = 0

\* C3: every resolution gives a converter for the key and direction asked;
\* when the calibrated lookup failed, or none was made, it is the linear one.
C3_AlwaysAConverter ==
    LET r == call.resolution
    IN  r # NoResolution =>
            /\ r.converter.tier \in Tiers
            /\ r.converter.direction \in Directions
            /\ r.converter.range \in RangeIndices
            /\ (r.tried = None \/ ~r.lookup_ok) => r.converter.tier = "linear"
            /\ \E i \in 1 .. Len(call.chans) :
                    <<r.converter.subdevice, r.converter.channel,
                      r.converter.range>> = KeyOf(call, i)

\* a failed software lookup that ended in the linear converter
C3_Witness ==
    /\ call.resolution.tried = "softcal" /\ ~call.resolution.lookup_ok
    /\ call.resolution.converter.tier = "linear"
    /\ call.op = "write_data"

\* C4: the hardware lookup is tried exactly on a subdevice not flagged
\* soft-calibrated, the software lookup exactly on a soft-calibrated one with
\* a blob loaded; the polynomial converter of the lookup tried is returned
\* exactly when that lookup succeeded, the linear one otherwise.
C4_ResolutionOrder ==
    LET r == call.resolution
        soft == SDF_SOFT_CALIBRATED \in hw.flags[r.converter.subdevice]
    IN  r # NoResolution =>
            /\ r.tried = "hardcal" <=> ~soft
            /\ r.tried = "softcal" <=> (soft /\ calibration = "blob")
            /\ r.tried = None <=> (soft /\ calibration = None)
            /\ r.converter.tier = (IF r.tried # None /\ r.lookup_ok
                                   THEN r.tried ELSE "linear")

\* soft-calibrated subdevice, no blob: no lookup, linear converter
C4_Witness ==
    /\ call.resolution # NoResolution
    /\ SDF_SOFT_CALIBRATED \in hw.flags[call.resolution.converter.subdevice]
    /\ calibration = None
    /\ call.resolution.tried = None
    /\ call.resolution.converter.tier = "linear"

\* C5: construction never fails in the calibration load; without a
\* soft-calibrated subdevice no path is looked up and nothing is loaded; a
\* blob is held exactly when the path was resolved and the file parsed.
C5_CalibrationLoad ==
    LET soft == \E i \in Subdevices : SDF_SOFT_CALIBRATED \in hw.flags[i]
    IN  /\ session = "failed" =>
                (~init_log.path_lookup /\ ~init_log.parse /\ calibration = None)
        /\ session = "ready" =>
            /\ init_log.error = None
            /\ init_log.path_lookup <=> soft
            /\ init_log.parse <=> (soft /\ init_log.path_ok)
            /\ calibration = "blob" <=>
                    (soft /\ init_log.path_ok /\ init_log.parse_ok)
            /\ calibration \in {None, "blob"}

\* a session built although the calibration file could not be parsed
C5_Witness ==
    /\ session = "ready" /\ init_log.parse /\ ~init_log.parse_ok
    /\ calibration = None

\* C6: a command is submitted only after two tests of it in the same call,
\* none negative and the second 0; a second test that is not 0 ends the
\* call with an error and nothing is submitted.
C6_TwoPassGate ==
    call.op \in {"get_data", "write_data"} =>
        /\ call.submitted =>
                (call.ntests = 2 /\ ~call.negative /\ call.rc = 0)
        /\ \A i \in 1 .. Len(call.log) :
                call.log[i] = "command" =>
                    (i = 3 /\ call.log[1] = "test" /\ call.log[2] = "test")
        /\ (call.ntests = 2 /\ call.rc # 0) =>
                (call.pc = "done" /\ IsError(call.result) /\ ~call.submitted)
        /\ call.pc = "command" => (call.ntests = 2 /\ call.rc = 0)

\* a write_data command submitted after its two tests
C6_Witness ==
    /\ call.op = "write_data" /\ call.submitted
    /\ call.ntests = 2 /\ call.rc = 0

\* C7: a call rejected by validation leaves the session as it was when the
\* call started, transfers nothing and arms nothing.
C7_RejectionFrame ==
    (call.op \in {"get_data", "write_data"} /\ call.pc = "done"
     /\ call.result \in ValidationErrors) =>
        /\ Snapshot = pre
        /\ call.io = 0
        /\ ~call.submitted
        /\ call.cancels = 0
        /\ call.nresolutions = 0

\* a get_data call rejected by the second test on a session whose cache
\* already holds a converter
C7_Witness ==
    /\ Ended("get_data") /\ call.result = "IOError: failed to prepare command"
    /\ \E k \in Keys : convert_to_phys[k].tier # None
    /\ device = "open"

\* C8: a short read is not an error: get_data returns the samples that
\* arrived, converted.
C8_ShortReadReturned ==
    (Ended("get_data") /\ call.cancels > 0 /\ call.ranges[1] >= 0
     /\ Len(call.buf) < call.nscans * Len(call.chans)) =>
        /\ call.result = "return"
        /\ Len(call.ret) = Len(call.buf)

\* C9: get_data with count 0 ends with an error and submits nothing; a
\* submitted acquisition has a stop count of at least 1.
C9_ZeroCountRejected ==
    call.op = "get_data" =>
        /\ call.nscans = 0 => ~call.submitted
        /\ (call.nscans = 0 /\ call.pc = "done") => IsError(call.result)
        /\ call.submitted => call.stop_arg >= 1

\* C10: a get_data call that submitted its command has cancelled the
\* acquisition when it ends.
C10_CancelledAtEnd ==
    (Ended("get_data") /\ call.submitted) => call.cancels >= 1

\* column i of the data of a write_data call lies within range r of its channel
Covers(frame, i, r) ==
    LET rng == comedi_get_range(AO, frame.chans[i], r)
        col == DataColumn(frame.data, i)
    IN  rng.min <= SeqMin(col) /\ rng.max >= SeqMax(col)

RangeError == "IOError: Data range is too high for hardware"

\* C11: when no range of some channel covers that column's min..max,
\* write_data ends with the IOError "data range too high" before any command
\* is tested or submitted and before any byte is written; a call that goes
\* on uses, for every channel, a range that covers the column's data.
C11_RangeCapability ==
    call.op = "write_data" =>
        LET columns == 1 .. Len(call.chans)
            uncovered == \E i \in columns :
                            \A r \in RangeIndices : ~Covers(call, i, r)
        IN  /\ uncovered =>
                /\ call.pc = "done" /\ call.result = RangeError
                /\ call.ntests = 0 /\ ~call.submitted
                /\ call.io = 0 /\ call.log = << >>
                /\ call.nresolutions = 0 /\ Snapshot = pre
            /\ ~uncovered =>
                /\ call.result # RangeError
                /\ Len(call.ranges) = Len(call.chans)
                /\ \A i \in columns :
                        call.ranges[i] \in RangeIndices
                        /\ Covers(call, i, call.ranges[i])

\* a two channel write refused because of its second column (-20 .. 20 V)
C11_Witness ==
    /\ Ended("write_data") /\ call.result = RangeError
    /\ Len(call.chans) = 2
    /\ Covers(call, 1, 0) /\ \A r \in RangeIndices : ~Covers(call, 2, r)
    /\ call.ntests = 0 /\ call.io = 0

IsPrefix(s, t) == Len(s) <= Len(t) /\ SubSeq(t, 1, Len(s)) = s

\* the device-facing steps of write_data, in the order of the code
WriteOrder ==
    <<"test", "test", "command", "write", "flush", "trigger", "write", "flush",
      "wait", "cancel">>

\* C12: the steps of a write_data call are an initial part of: command
\* submitted with start_src = TRIG_INT, preload written, flush, internal
\* trigger, remainder written, flush, wait; each happens at most once, no
\* byte is written before the command is submitted, and the trigger is fired
\* only after the flush of the preload.
C12_WriteOrder ==
    call.op = "write_data" =>
        /\ IsPrefix(call.log, WriteOrder)
        /\ call.submitted <=> Len(call.log) >= 3
        /\ call.submitted => call.start_src = TRIG_INT
        /\ call.io > 0 => call.submitted
        /\ \A i \in 1 .. Len(call.log) :
                /\ call.log[i] = "write" => \E j \in 1 .. (i - 1) : call.log[j] = "command"
                /\ call.log[i] = "trigger" =>
                        (i > 2 /\ call.log[i - 1] = "flush" /\ call.log[i - 2] = "write")
        /\ call.pc \in {"stream", "sleep"} => call.log[Len(call.log)] \in {"trigger", "flush"}
        /\ call.pc = "poll" => call.log = SubSeq(WriteOrder, 1, 9)

\* a write in two parts (preload smaller than the buffer) waiting for the end
C12_Witness ==
    /\ call.op = "write_data" /\ call.pc = "poll"
    /\ 0 < call.preload /\ call.preload < Len(call.buf)
    /\ call.io = Len(call.buf) * call.itemsize
    /\ call.log = SubSeq(WriteOrder, 1, 9)

TimeoutError == "IOError: Write command stopped due to timeout"

\* C13: write_data returns only when a poll made before end_time
\* (start_time + 1.10 * nscans * period + 1 s) saw SDF_RUNNING clear; a call
\* whose completion wait (the sleep and the polling) reached end_time without
\* seeing it clear ends with the timeout error.
C13_CompletionWait ==
    call.op = "write_data" =>
        /\ call.result = "return" =>
                (call.sdf_running = "clear" /\ call.now < AfterEnd)
        /\ (call.pc \in {"cancel", "done"} /\ call.now >= AfterEnd
            /\ "wait" \in {call.log[i] : i \in 1 .. Len(call.log)}) =>
                /\ call.result # "return"
                /\ call.pc = "done" => call.result = TimeoutError

Logged(frame, step) == \E i \in 1 .. Len(frame.log) : frame.log[i] = step

\* C14: a write_data call that reached the completion wait (its sleep was
\* accepted and the polling began) has, when it ends, attempted
\* comedi_cancel exactly once, after the wait; this holds whether the wait
\* saw completion or timed out, and the timeout error is reported only
\* after the cancel.
C14_CancelAfterWait ==
    (Ended("write_data") /\ Logged(call, "wait")
     /\ call.result # "IOError: Invalid argument") =>
        /\ call.cancels = 1
        /\ call.log[Len(call.log)] = "cancel"
        /\ call.log[Len(call.log) - 1] = "wait"

\* the exception class of each raise statement
IOErrors ==
    {"IOError: Error obtaining Comedi device file descriptor",
     "IOError: Failed to read data",
     "IOError: Failed to get subdevice flags",
     "IOError: comedi_get_cmd_generic failed",
     "IOError: comedi_command_test failed",
     "IOError: failed to prepare command",
     "IOError: comedi_command failed",
     "IOError: Data range is too high for hardware",
     "IOError: comedi_internal_trigger failed",
     "IOError: Write command stopped due to timeout",
     "IOError: Invalid argument"}

ValueErrors ==
    {"ValueError: Failed to open DAQ device",
     "ValueError: Failed to open AI subdevice",
     "ValueError: Failed to open AO subdevice",
     "ValueError: total size of new array must be unchanged"}

ErrorClass(result) ==
    IF result \in IOErrors THEN "IOError"
    ELSE IF result \in ValueErrors THEN "ValueError"
    ELSE IF IsError(result) THEN "OverflowError"
    ELSE "none"

\* C15: the error that ends a write_data call on a timeout is of another
\* kind (exception class) than the errors that end a call rejected by
\* validation.
C15_TimeoutDistinctFromRejection ==
    (Ended("write_data") /\ call.result = TimeoutError) =>
        \A rejection \in ValidationErrors :
            ErrorClass(call.result) # ErrorClass(rejection)

\* the errors of __init__ raised after comedi_open succeeded
AfterOpenErrors ==
    {"IOError: Error obtaining Comedi device file descriptor",
     "ValueError: Failed to open AI subdevice",
     "ValueError: Failed to open AO subdevice"}

\* C16: a construction that failed after the device was opened (bad file
\* descriptor, no AI subdevice, no AO subdevice) leaves no device handle
\* open.
C16_NoPartialSession ==
    (session = "failed" /\ init_log.error \in AfterOpenErrors) =>
        device # "open"

\* C17: a session is built only when the device was opened and both the AI
\* and the AO subdevice were found; a failed open ends in a ValueError; a
\* missing subdevice ends in an error raised before any calibration is
\* looked up or loaded and with no converter stored.
C17_ConstructionRequirements ==
    /\ session = "ready" =>
            (init_log.opened /\ init_log.ai_found /\ init_log.ao_found
             /\ device = "open" /\ init_log.error = None)
    /\ (session # "new" /\ ~init_log.opened) =>
            /\ session = "failed" /\ device = None
            /\ ErrorClass(init_log.error) = "ValueError"
            /\ init_log.error = "ValueError: Failed to open DAQ device"
    /\ (session # "new" /\ ~(init_log.ai_found /\ init_log.ao_found)) =>
            /\ session = "failed" /\ IsError(init_log.error)
            /\ ~init_log.path_lookup /\ ~init_log.parse /\ calibration = None
            /\ convert_to_phys = EmptyCache /\ convert_from_phys = EmptyCache

\* a construction that found the AI subdevice but no AO subdevice
C17_Witness ==
    /\ session = "failed" /\ init_log.opened
    /\ init_log.ai_found /\ ~init_log.ao_found
    /\ init_log.error = "ValueError: Failed to open AO subdevice"
    /\ calibration = None

\* C18: after any number n >= 1 of terminate calls the blob, if one was
\* loaded, has been released exactly once and the handle closed exactly
\* once, the release before the close; a call after the first changes
\* nothing of the session, makes no comedi call and returns.
C18_TeardownIdempotent ==
    /\ [](teardown.calls >= 1 =>
            /\ teardown.log =
                    (IF init_log.parse /\ init_log.parse_ok
                     THEN <<"comedi_cleanup_calibration", "comedi_close">>
                     ELSE <<"comedi_close">>)
            /\ device = None /\ calibration = None
            /\ Ended("terminate") /\ call.result = "return")
    /\ [][(teardown.calls >= 1 /\ teardown'.calls # teardown.calls) =>
            /\ teardown'.log = teardown.log
            /\ <<session, device, calibration, init_log, busy>>' =
                    <<session, device, calibration, init_log, busy>>
            /\ UNCHANGED CacheVars
            /\ call'.result = "return"]_vars

\* a third terminate call on a session that had loaded a calibration blob
C18_Witness ==
    /\ teardown.calls = 3
    /\ init_log.parse /\ init_log.parse_ok
    /\ Len(teardown.log) = 2

\* min + raw / maxdata * (max - min) for a range, as an exact physical value
Linear(rng, raw) == Phys(rng.min * MaxData + raw * (rng.max - rng.min))

\* C19: on an uncalibrated channel (the linear converter was resolved) a
\* get_data call that returns gives as many values as scans were asked,
\* value i being min + raw_i / maxdata * (max - min) of sample i for the
\* range selected, in the order of the samples.
C19_LinearRead ==
    (Ended("get_data") /\ call.result = "return"
     /\ call.resolution.converter.tier = "linear") =>
        LET rng == comedi_get_range(AI, call.chans[1], call.ranges[1])
        IN  /\ Len(call.ret) = call.nscans
            /\ Len(call.buf) = call.nscans
            /\ \A i \in 1 .. Len(call.ret) :
                    call.ret[i] = Linear(rng, call.buf[i])

\* C20: on an uncalibrated channel (linear converters in both directions)
\* _from_phys(_to_phys(r)) is within one code of r, for every raw code r of
\* 0 .. maxdata and every range.
C20_RoundTrip ==
    (Ended("round_trip")
     /\ convert_to_phys[KeyOf(call, 1)].tier = "linear"
     /\ convert_from_phys[KeyOf(call, 1)].tier = "linear") =>
        LET r == call.buf[1]
            back == call.data[1]
        IN  back - r \in -1 .. 1

\* point i (from 0) of n points linearly interpolated from a to b
Interpolated(a, b, n, i) ==
    IF n = 1 THEN Rat(a, 1) ELSE Rat(a * (n - 1) + i * (b - a), n - 1)

\* v is the point q in the type of the limits (an integer type keeps the
\* integer part)
IsPoint(v, q, dtype) ==
    IF dtype = "float" THEN Same(v, q)
    ELSE /\ v.den = 1
         /\ (v.num * q.den - q.num) \in (1 - q.den) .. (q.den - 1)
         /\ (q.num >= 0 => v.num * q.den <= q.num)
         /\ (q.num <= 0 => v.num * q.den >= q.num)

\* C21: _generate_scan_array((R, C), limits) returns R x C pairs; entry k
\* (from 0) holds point k div C of the R points interpolated over
\* limits[0] and point k mod C of the C points interpolated over limits[1];
\* the axis 0 value changes only every C entries.
C21_ScanLayout ==
    Ended("_generate_scan_array") =>
        LET R == call.shape[1]
            C == call.shape[2]
            lim == call.limits
        IN  /\ Len(call.ret) = R * C
            /\ \A k \in 0 .. (R * C - 1) :
                /\ IsPoint(call.ret[k + 1][1],
                           Interpolated(lim[1][1], lim[1][2], R, k \div C),
                           call.dtype)
                /\ IsPoint(call.ret[k + 1][2],
                           Interpolated(lim[2][1], lim[2][2], C, k % C),
                           call.dtype)
                /\ ((k + 1) % C # 0 /\ k + 1 < R * C) =>
                        call.ret[k + 2][1] = call.ret[k + 1][1]

\* a 2 x 3 scan of floats over X 0 .. 3 and Y -5 .. 5
C21_Witness ==
    /\ Ended("_generate_scan_array")
    /\ call.shape = <<2, 3>> /\ call.dtype = "float"
    /\ call.limits = << <<0, 3>>, <<-5, 5>> >>
    /\ Len(call.ret) = 6
    /\ Same(call.ret[4][1], Rat(3, 1)) /\ Same(call.ret[4][2], Rat(-5, 1))

\* C22 as stated: for every shape (R, C) the first R entries sweep along
\* axis 1 from limits[1,0] (the first of them) to limits[1,1] (the last).
C22_FirstRSweep ==
    (Ended("_generate_scan_array") /\ call.shape[1] >= 1 /\ call.shape[2] >= 1) =>
        LET R == call.shape[1]
        IN  /\ IsPoint(call.ret[1][2], Rat(call.limits[2][1], 1), call.dtype)
            /\ IsPoint(call.ret[R][2], Rat(call.limits[2][2], 1), call.dtype)

\* C22 amended: for every shape (R, C) with R >= 1 the first C entries
\* sweep along axis 1: entry j holds point j of the C points interpolated
\* over limits[1], the first being limits[1,0] and, for C >= 2, the last
\* being limits[1,1]; their axis 0 value is limits[0,0].
C22_FirstCSweep ==
    (Ended("_generate_scan_array") /\ call.shape[1] >= 1) =>
        LET C == call.shape[2]
            lim == call.limits
        IN  /\ \A j \in 0 .. (C - 1) :
                /\ IsPoint(call.ret[j + 1][2],
                           Interpolated(lim[2][1], lim[2][2], C, j), call.dtype)
                /\ IsPoint(call.ret[j + 1][1], Rat(lim[1][1], 1), call.dtype)
            /\ C >= 1 => IsPoint(call.ret[1][2], Rat(lim[2][1], 1), call.dtype)
            /\ C >= 2 => IsPoint(call.ret[C][2], Rat(lim[2][2], 1), call.dtype)

\* a 3 x 2 scan: the sweep along axis 1 ends at the second entry, the third
\* entry starts the next line
C22_Witness ==
    /\ Ended("_generate_scan_array")
    /\ call.shape = <<3, 2>> /\ call.limits[2] = <<-5, 5>>
    /\ Same(call.ret[2][2], Rat(5, 1))
    /\ Same(call.ret[3][2], Rat(-5, 1))

\* the adapter configured as the identity: rotation 0, scale (1, 1), offset (0, 0)
IdentityStage ==
    stage.rotation = 0 /\ stage.scale = <<1, 1>> /\ stage.offset = <<0, 0>>

\* C23: with rotation 0, scale (1, 1) and offset (0, 0), moveRel forwards the
\* vector unchanged: a moveRel of {x: dx} issues exactly one child moveRel,
\* with dx on the child's x axis and 0 on its y axis, and returns what the
\* child's moveRel returned (its future).
C23_MoveRelIdentity ==
    (stage.op = "moveRel" /\ stage.result # "none" /\ IdentityStage) =>
        /\ stage.result = "return"
        /\ stage.ret = "child.moveRel"
        /\ Len(stage.forwarded) = 1
        /\ stage.forwarded[1] = [op |-> "moveRel",
                                 x |-> Get(stage.arg, "x"),
                                 y |-> Get(stage.arg, "y")]
        /\ DOMAIN stage.arg = {"x"} => stage.forwarded[1].y = 0

\* a moveRel of {x: 2} alone went through the identity adapter
C23_Witness ==
    /\ stage.op = "moveRel" /\ stage.result = "return" /\ IdentityStage
    /\ DOMAIN stage.arg = {"x"} /\ stage.arg["x"] = 2
    /\ stage.forwarded = <<[op |-> "moveRel", x |-> 2, y |-> 0]>>

\* C24: moveAbs signals "not implemented" for every argument and in every
\* state and has no effect: nothing is forwarded to the child and neither the
\* adapter's position nor its configuration changes.
C24_MoveAbsUnsupported ==
    /\ [](stage.op = "moveAbs" =>
            /\ stage.result = "NotImplementedError: Do you really need that??"
            /\ stage.forwarded = << >>
            /\ stage.ret = None)
    /\ [][stage'.op = "moveAbs" /\ stage' # stage =>
            /\ stage'.position = stage.position
            /\ stage'.child_position = stage.child_position
            /\ <<stage'.state, stage'.scale, stage'.rotation, stage'.offset,
                 stage'.subscribed, stage'.listener>> =
               <<stage.state, stage.scale, stage.rotation, stage.offset,
                 stage.subscribed, stage.listener>>]_vars

\* moveAbs of {x: 2, y: -1} was refused on an adapter with a scale and an offset
C24_Witness ==
    /\ stage.op = "moveAbs" /\ stage.result # "none"
    /\ stage.scale = <<2, 3>> /\ stage.offset = <<1, -2>>
    /\ DOMAIN stage.arg = {"x", "y"} /\ stage.arg["x"] = 2 /\ stage.arg["y"] = -1

\* C25: once the adapter is subscribed, its position is
\* offset + R^-1 L^-1 (child position), at subscription and after every change
\* of the child's position: converting it back with L R (position - offset)
\* gives the child's position, and in the identity case it is the child's
\* position.
C25_PositionMirror ==
    (stage.state = "ready" /\ stage.subscribed) =>
        /\ _convertPosToChild(stage, stage.position) = stage.child_position
        /\ IdentityStage => stage.position = stage.child_position

\* C27: when the range search finds no covering range (0..1 V in
\* getTemperatureSCB, 0..10 V in get_data) the call does not fail for that
\* reason and goes on with a range index >= 0: a negative index is never
\* packed into a channel list nor given to a read or a converter.
C27_RangeFallback ==
    call.op \in {"get_data", "getTemperatureSCB"} =>
        /\ \A i \in 1 .. Len(call.ranges) : call.ranges[i] >= 0
        /\ call.result # "OverflowError: cr_pack"

\* C26: every transfer on the streaming file has a byte length that is an
\* exact multiple of sample width x channel count: the read asked by get_data,
\* the preload write and the remainder write of write_data.
C26_WholeScans ==
    \A k \in 1 .. Len(call.transfers) :
        call.transfers[k] % (call.itemsize * Len(call.chans)) = 0

\* a candidate that opens, has an AI subdevice with at least one channel and
\* an AO subdevice with at least two
Fit(d) == d.opens /\ d.ai >= 0 /\ d.number_ai >= 1 /\ d.ao >= 0 /\ d.number_ao >= 2

\* an exception was raised during the check of a device that had opened
Interrupted ==
    call.raises \in 1 .. Len(call.names) /\ call.names[call.raises].opens

\* C28: scan() returns one (name, {device: path}) pair exactly for each
\* candidate that opens, has an analog input subdevice with at least 1 channel
\* and an analog output subdevice with at least 2; the other candidates are
\* skipped and do not stop the enumeration of those after them.
C28_ScanEnumerates ==
    (Ended("scan") /\ ~Interrupted) =>
        /\ call.result = "return"
        /\ Len(call.ret) = Cardinality({n \in 1 .. Len(call.names) : Fit(call.names[n])})
        /\ \A n \in 1 .. Len(call.names) :
            Fit(call.names[n]) =>
                Cardinality({k \in 1 .. Len(call.ret) :
                    call.ret[k] = [name |-> <<"SEM/", call.names[n].board>>,
                                   kwargs |-> [device |-> n]]}) = 1
        /\ \A k \in 1 .. Len(call.ret) :
            /\ call.ret[k].kwargs.device \in 1 .. Len(call.names)
            /\ Fit(call.names[call.ret[k].kwargs.device])

\* three candidates: one that does not open, one with a single AO channel,
\* then a fit one, which is the only one returned
C28_Witness ==
    /\ Ended("scan") /\ Len(call.names) = 3 /\ ~Interrupted
    /\ ~call.names[1].opens
    /\ call.names[2].opens /\ call.names[2].number_ao = 1
    /\ Fit(call.names[3])
    /\ call.ret = <<[name |-> <<"SEM/", call.names[3].board>>,
                    kwargs |-> [device |-> 3]]>>

\* the thread that made a step of the view, when one did
Stepped(t) == view'.threads[t] # view.threads[t]

\* what a call can change in the view, apart from the clock and the frames
ViewContent(v) ==
    <<v.streams, v.subscribed, v.lastUpdate, v.has_received_image, v.mpp,
      v.merge, v.image, v.state>>

\* C29: under sequential use, addStream of a stream already in the view
\* changes nothing, removeStream of a stream that is not in the view leaves
\* the list of streams unchanged, and each stream appears at most once in the
\* list of streams.
C29_StreamList ==
    /\ [](\A j, k \in 1 .. Len(view.streams) :
            view.streams[j] = view.streams[k] => j = k)
    /\ [][\A t \in Threads :
            (Stepped(t) /\ view'.threads[t].op = "addStream"
               /\ view.threads[t].pc = "idle"
               /\ view'.threads[t].stream \in getStreams) =>
                /\ ViewContent(view') = ViewContent(view)
                /\ view'.threads[t].pc = "idle"
                /\ view'.threads[t].result = "return"]_vars
    /\ [][\A t \in Threads :
            (Stepped(t) /\ view'.threads[t].op = "removeStream"
               /\ view'.threads[t].stream \notin getStreams) =>
                view'.streams = view.streams]_vars

\* two calls were made, both addStream of "sem", one by each thread: the
\* second found the stream present, and the list holds it once
C29_Witness ==
    /\ AllIdle /\ view.clock = 2
    /\ \A t \in Threads : /\ view.threads[t].op = "addStream"
                          /\ view.threads[t].stream = "sem"
                          /\ view.threads[t].result = "return"
    /\ view.streams = <<"sem">>
    /\ view.subscribed = {"sem"}

\* C30: in write_data, for every channel position i, the range is the one
\* found for the min and max of column i alone, entry i of the channel list
\* holds channels[i] with that range, and every sample of column i is
\* converted with the converter resolved for (AO, channels[i], range i,
\* from physical).
C30_ChannelPairing ==
    (call.op = "write_data" /\ Len(call.ranges) > 0) =>
        LET nchans == Len(call.chans)
        IN  /\ Len(call.ranges) = nchans
            /\ \A i \in 1 .. nchans :
                /\ Covers(call, i, call.ranges[i])
                /\ \A r \in RangeIndices :
                    Covers(call, i, r) => Width(call.ranges[i]) <= Width(r)
            /\ \A i \in 1 .. Len(call.converters) :
                /\ call.converters[i].subdevice = AO
                /\ call.converters[i].channel = call.chans[i]
                /\ call.converters[i].range = call.ranges[i]
                /\ call.converters[i].direction = COMEDI_FROM_PHYSICAL
            /\ Len(call.buf) > 0 =>
                /\ Len(call.buf) = Len(call.data) * nchans
                /\ \A t \in 1 .. Len(call.data) : \A i \in 1 .. nchans :
                    call.buf[(t - 1) * nchans + i] =
                        Store(Apply([subdevice |-> AO, channel |-> call.chans[i],
                                     range |-> call.ranges[i],
                                     tier |-> call.converters[i].tier,
                                     direction |-> COMEDI_FROM_PHYSICAL],
                                    Volt(call.data[t][i])),
                              call.itemsize)

\* channels (1, 0) written with columns that need two different ranges
C30_Witness ==
    /\ call.op = "write_data" /\ Len(call.buf) = 4
    /\ call.chans = <<1, 0>>
    /\ call.ranges[1] # call.ranges[2]
    /\ call.converters[1].channel = 1 /\ call.converters[2].channel = 0
    /\ call.buf[1] # call.buf[2]

\* position of a step of write_data in the order of its phases: Preloading
\* ends in "trigger", Triggered in "stream", Streaming in "sleep", and the
\* wait for the completion is "sleep", "poll", "cancel"
PhaseRank(pc) ==
    CASE pc = "start" -> 0 [] pc = "test1" -> 1 [] pc = "test2" -> 2
      [] pc = "command" -> 3 [] pc = "dtype" -> 4 [] pc = "converters" -> 5
      [] pc = "trigger" -> 6 [] pc = "stream" -> 7 [] pc = "sleep" -> 8
      [] pc = "poll" -> 9 [] pc = "cancel" -> 10 [] pc = "done" -> 11

\* C31: every write_data call terminates: once the remainder is streamed the
\* wait ends, the polling loop making no poll once the deadline
\* start + 1.10 x expected + 1 s is reached, in exactly one of the outcomes
\* completed (return) or timed out (or an error), even if the running flag
\* never clears; the phases are entered in order and never entered again.
C31_WriteTerminates ==
    /\ (call.op = "write_data" /\ call.pc \in {"sleep", "poll", "cancel"})
            ~> (call.op = "write_data" /\ call.pc = "done")
    /\ []((Ended("write_data") /\ Logged(call, "cancel")) =>
            /\ call.result \in {"return", TimeoutError}
            /\ call.result = TimeoutError <=> call.had_timeout)
    /\ [][(call.op = "write_data" /\ call.pc = "poll" /\ call.now >= AfterEnd) =>
            /\ call'.pc = "cancel"
            /\ call'.sdf_running = call.sdf_running]_vars
    /\ [][(call.op = "write_data" /\ call.pc # "done") =>
            /\ call'.op = "write_data"
            /\ PhaseRank(call'.pc) >= PhaseRank(call.pc)
            /\ (PhaseRank(call'.pc) = PhaseRank(call.pc)) =>
                    call.pc \in {"converters", "poll"}]_vars

\* a write whose polls always saw the subdevice running ended with the
\* timeout error, after the cancel
C31_Witness ==
    /\ Ended("write_data") /\ call.result = TimeoutError
    /\ call.sdf_running = "set" /\ call.now = AfterEnd /\ call.had_timeout
    /\ call.log = WriteOrder

\* C32: the preload segment followed by the remainder segment is exactly
\* the full raw buffer, every sample written once and in time order, for
\* every device buffer size, one larger than the whole buffer included (the
\* remainder is then empty); the preload segment never holds more bytes than
\* the buffer size the device reported.
C32_PreloadSplit ==
    (call.op = "write_data" /\ Len(call.transfers) > 0) =>
        /\ call.transfers[1] <= call.dev_buf_size
        /\ call.transfers[1] = call.preload * call.itemsize
        /\ Len(call.transfers) = 1 =>
                /\ IsPrefix(call.written, call.buf)
                /\ Len(call.written) = call.preload
        /\ Len(call.transfers) = 2 =>
                /\ call.written = call.buf
                /\ call.transfers[1] + call.transfers[2] = Len(call.buf) * call.itemsize
                /\ call.dev_buf_size >= Len(call.buf) * call.itemsize =>
                        call.transfers[2] = 0

\* a buffer of 4 samples of 2 bytes written as 1 sample of preload (device
\* buffer of 2 bytes) and 3 of remainder
C32_Witness ==
    /\ call.op = "write_data" /\ call.pc = "sleep"
    /\ call.dev_buf_size = 2 /\ call.itemsize = 2 /\ Len(call.buf) = 4
    /\ call.transfers = <<2, 6>>
    /\ call.written = call.buf

\* C33: once comedi_command has armed the output subdevice, every way
\* write_data ends, its error exits included, comes after a cancel of the
\* output subdevice, which is not left busy.
C33_CancelOnEveryExit ==
    (Ended("write_data") /\ call.submitted) =>
        /\ call.cancels >= 1
        /\ Logged(call, "cancel")

\* C34: a write_data call whose output has finished, so that no poll can
\* see the running flag set, never ends with the timeout error, whatever
\* time the preload, the trigger, the streaming and the sleep took.
C34_NoSpuriousTimeout ==
    (Ended("write_data") /\ call.result = TimeoutError) =>
        call.sdf_running = "set"

\* C35: moveRel forwards L R shift, a vector that depends on the shift, the
\* rotation and the scale only, not on the offset: a zero shift forwards a
\* zero move, and a shift forwards the same move whatever the offset.
C35_MoveRelOffsetFree ==
    (stage.op = "moveRel" /\ stage.result = "return") =>
        LET vshift == <<Get(stage.arg, "x"), Get(stage.arg, "y")>>
            q == MatVec(Dot(_L(stage.scale), _R(stage.rotation)), vshift)
        IN  /\ Len(stage.forwarded) = 1
            /\ stage.forwarded[1] = [op |-> "moveRel", x |-> q[1], y |-> q[2]]
            /\ vshift = <<0, 0>> =>
                    (stage.forwarded[1].x = 0 /\ stage.forwarded[1].y = 0)

\* the n-th candidate was opened by scan(): comedi_open was called for it
\* and gave a device
Opened(n) ==
    call.names[n].opens /\ \E k \in 1 .. Len(call.log) : call.log[k] = <<"open", n>>

\* number of times the comedi call <<what, n>> was made by scan()
Calls(what, n) ==
    Cardinality({k \in 1 .. Len(call.log) : call.log[k] = <<what, n>>})

\* C36: scan() leaks no device: every candidate it opened is closed exactly
\* once before scan() ends, whether the device was accepted, skipped for a
\* missing subdevice or too few channels, or an error was raised during its
\* check; a device that failed to open is never closed.
C36_ScanClosesDevices ==
    Ended("scan") =>
        \A n \in 1 .. Len(call.names) :
            /\ Calls("open", n) <= 1
            /\ Calls("close", n) =
                    (IF Opened(n) THEN 1 ELSE 0)
            /\ \A k \in 1 .. Len(call.log) :
                    call.log[k] = <<"close", n>> =>
                        (k > 1 /\ call.log[k - 1] = <<"open", n>>)

\* three candidates: the first does not open, the second is skipped for its
\* single AO channel, an exception is raised during the check of the third
C36_Witness ==
    /\ Ended("scan") /\ Len(call.names) = 3 /\ call.raises = 3
    /\ ~call.names[1].opens
    /\ call.names[2].opens /\ call.names[2].number_ao = 1
    /\ call.names[3].opens
    /\ call.result = "KeyboardInterrupt"
    /\ call.log = <<<<"open", 1>>, <<"open", 2>>, <<"close", 2>>,
                    <<"open", 3>>, <<"close", 3>>>>

\* number of times the stream is in the view's list of streams
Occurrences(stream) ==
    Cardinality({k \in 1 .. Len(view.streams) : view.streams[k] = stream})

\* both threads have returned, thread 1 from op1 and thread 2 from op2, both
\* called with the stream, and these were the only calls made on the view
BothReturned(op1, op2, stream) ==
    /\ AllIdle /\ view.clock = 2
    /\ view.threads[1].op = op1 /\ view.threads[2].op = op2
    /\ \A t \in Threads : view.threads[t].stream = stream

\* C37: when two threads call addStream with the same stream on the same
\* view at the same time, the stream ends up exactly once in the view's list
\* of streams, however the presence tests and the locked appends interleave.
C37_ConcurrentAdd ==
    \A stream \in Streams :
        BothReturned("addStream", "addStream", stream) => Occurrences(stream) = 1

\* C38: for every interleaving of one addStream and one removeStream of the
\* same stream by two threads, once both have returned the view is
\* subscribed to the stream's image if and only if the stream is in its list
\* of streams.
C38_SubscriptionConsistent ==
    \A stream \in {x \in Streams : HasImageAttribute(x)} :
        (\/ BothReturned("addStream", "removeStream", stream)
         \/ BothReturned("removeStream", "addStream", stream)) =>
            (stream \in view.subscribed <=> stream \in getStreams)

\* C39: moveStageToView never forwards to the stage a relative move longer
\* than MAX_SAFE_MOVE_DISTANCE (10 mm): such a request returns without any
\* stage call; a request within the limit forwards exactly one moveRel, equal
\* to view_pos minus the stage position; with no stage nothing is forwarded.
C39_SafeMove ==
    view.last.op = "moveStageToView" =>
        LET dx == view.last.to[1] - view.last.from[1]
            dy == view.last.to[2] - view.last.from[2]
            far == dx * dx + dy * dy >
                        MAX_SAFE_MOVE_DISTANCE * MAX_SAFE_MOVE_DISTANCE
        IN  /\ \A k \in 1 .. Len(view.last.forwarded) :
                LET m == view.last.forwarded[k]
                IN  m.x * m.x + m.y * m.y <=
                        MAX_SAFE_MOVE_DISTANCE * MAX_SAFE_MOVE_DISTANCE
            /\ (~view.has_stage \/ far) =>
                    (view.last.forwarded = << >> /\ view.last.ret = None)
            /\ (view.has_stage /\ ~far) =>
                    /\ view.last.forwarded = <<[op |-> "moveRel", x |-> dx, y |-> dy]>>
                    /\ view.last.ret = "stage.moveRel"

\* a request of (8, 8) mm from the origin, 11.3 mm long, was not forwarded
C39_Witness ==
    /\ view.last.op = "moveStageToView" /\ view.has_stage
    /\ view.last.from = <<0, 0>> /\ view.last.to = <<8, 8>>
    /\ view.last.forwarded = << >>

====
